---- MODULE Spec2Model ----
(***************************************************************************)
(* Batch upload / sync engine of server.py: the BatchOperationManager, the *)
(* upload_* and sync_* handlers of call_tool, cancel_batch_operation, and  *)
(* the Git data API of the provider the handlers talk to (blobs, trees,    *)
(* commits, one branch ref).                                               *)
(*                                                                         *)
(* One action is one suspension point of a handler: the response of the    *)
(* Gateway request in flight arrives (or the request raises) and the       *)
(* handler runs, without interruption, up to its next request or return.   *)
(* A request that raises has had no effect on the provider.                *)
(***************************************************************************)
EXTENDS Integers, Sequences, FiniteSets, TLC

VARIABLES
    operations,   \* batch_manager.operations, in dict insertion order
    now,          \* time.time(), in seconds
    head,         \* commit the branch ref points to
    commits,      \* provider: commit sha -> [tree, parents]
    trees,        \* provider: tree sha -> (path -> [mode, sha])
    blobs,        \* provider: blob shas created so far
    fs,           \* the local file tree the handlers scan
    inv,          \* per call_tool invocation: position, arguments, locals
    calls,        \* number of call_tool invocations started so far
    budget,       \* number of call_tool invocations the clients make
    identities,   \* AuthManager: the identities [id, token], in dict order
    active_identity_id   \* AuthManager: None or Some(id)

vars == <<operations, now, head, commits, trees, blobs, fs, inv, calls, budget,
          identities, active_identity_id>>

(***************************************************************************)
(* Bounds of the model.                                                    *)
(***************************************************************************)
MaxCalls == 2         \* call_tool invocations in one behaviour of Spec
MaxCancelCalls == 3   \* call_tool invocations in one behaviour of SpecCancel
MaxInv == 2           \* invocations of upload/sync tools in one behaviour
MaxTrackerCalls == 3  \* calls of the tracker in one behaviour of SpecTracker
MaxCapCalls == 2      \* calls of the tracker in one behaviour of SpecCap
MaxDrift == 1         \* seconds the clock runs on from an instant it jumps to

MaxSlots == IF MaxCalls > MaxCancelCalls THEN MaxCalls ELSE MaxCancelCalls

Invs == 1..MaxSlots

(***************************************************************************)
(* Program constants.                                                      *)
(***************************************************************************)
max_operations == 50
operation_timeout == 7200

RECURSIVE SetToSeq(_)
SetToSeq(S) ==
    IF S = {} THEN <<>>
    ELSE LET x == CHOOSE y \in S : TRUE IN <<x>> \o SetToSeq(S \ {x})

Range(s) == {s[k] : k \in 1..Len(s)}

(***************************************************************************)
(* An optional argument (progress: int = None, ...) is <<>> for None and   *)
(* <<v>> for a value v.                                                    *)
(***************************************************************************)
None == <<>>
Some(v) == <<v>>

(***************************************************************************)
(* BatchOperationManager.  operations is the dict as the sequence of its   *)
(* items in insertion order; every item carries its key in the field id.   *)
(***************************************************************************)
OpIds(ops) == {ops[k].id : k \in 1..Len(ops)}

OpIndex(ops, op_id) == CHOOSE k \in 1..Len(ops) : ops[k].id = op_id

NewOperation(op_id, operation_type, t) ==
    [id |-> op_id, type |-> operation_type, status |-> "pending",
     progress |-> 0, total |-> 0, completed |-> 0, failed |-> 0,
     errors |-> <<>>, created_at |-> t, updated_at |-> t]

\* The items of ops whose index is in K, in the order of ops.
RECURSIVE KeepIdx(_, _, _)
KeepIdx(ops, K, k) ==
    IF k > Len(ops) THEN <<>>
    ELSE (IF k \in K THEN <<ops[k]>> ELSE <<>>) \o KeepIdx(ops, K, k + 1)

\* A slip: sorted(..., reverse=True), the newest first.
SortRankNewest(ops, k) ==
    Cardinality({j \in 1..Len(ops) :
        \/ ops[j].created_at > ops[k].created_at
        \/ ops[j].created_at = ops[k].created_at /\ j < k})

\* Position of item k in sorted(items, key=created_at): the sort is stable.
SortRank(ops, k) ==
    Cardinality({j \in 1..Len(ops) :
        \/ ops[j].created_at < ops[k].created_at
        \/ ops[j].created_at = ops[k].created_at /\ j < k})

\* A slip: >= in the TTL test.
_cleanup_expired_inclusive(ops, current_time) ==
    LET live == KeepIdx(ops, {k \in 1..Len(ops) :
                    ~(current_time - ops[k].created_at >= operation_timeout)}, 1)
    IN  IF Len(live) > max_operations
        THEN KeepIdx(live, {k \in 1..Len(live) :
                 ~(SortRank(live, k) < Len(live) - max_operations)}, 1)
        ELSE live

_cleanup_expired(ops, current_time) ==
    LET live == KeepIdx(ops, {k \in 1..Len(ops) :
                    ~(current_time - ops[k].created_at > operation_timeout)}, 1)
    IN  IF Len(live) > max_operations
        THEN KeepIdx(live, {k \in 1..Len(live) :
                 ~(SortRank(live, k) < Len(live) - max_operations)}, 1)
        ELSE live

create_operation(ops, op_id, operation_type, t) ==
    LET rec == NewOperation(op_id, operation_type, t)
        put == IF op_id \in OpIds(ops)
               THEN [ops EXCEPT ![OpIndex(ops, op_id)] = rec]
               ELSE Append(ops, rec)
    IN  _cleanup_expired(put, t)

\* A slip: the error is appended but failed is not incremented.
update_operation_no_count(ops, op_id, progress, status, error, t) ==
    IF op_id \in OpIds(ops)
    THEN LET k == OpIndex(ops, op_id)
             o == ops[k]
         IN  [ops EXCEPT ![k] =
                [o EXCEPT
                   !.progress = IF progress # None THEN progress[1] ELSE o.progress,
                   !.status = IF status # None THEN status[1] ELSE o.status,
                   !.errors = IF error # None THEN Append(o.errors, error[1])
                              ELSE o.errors,
                   !.updated_at = t]]
    ELSE ops

update_operation(ops, op_id, progress, status, error, t) ==
    IF op_id \in OpIds(ops)
    THEN LET k == OpIndex(ops, op_id)
             o == ops[k]
         IN  [ops EXCEPT ![k] =
                [o EXCEPT
                   !.progress = IF progress # None THEN progress[1] ELSE o.progress,
                   !.status = IF status # None THEN status[1] ELSE o.status,
                   !.errors = IF error # None THEN Append(o.errors, error[1])
                              ELSE o.errors,
                   !.failed = IF error # None THEN o.failed + 1 ELSE o.failed,
                   !.updated_at = t]]
    ELSE ops

\* A slip: an id that is not tracked gets an entry.
complete_operation_upsert(ops, op_id, status, t) ==
    IF op_id \in OpIds(ops)
    THEN [ops EXCEPT ![OpIndex(ops, op_id)] =
            [@ EXCEPT !.status = status, !.updated_at = t]]
    ELSE Append(ops, [id |-> op_id, type |-> "", status |-> status,
                      progress |-> 0, total |-> 0, completed |-> 0,
                      failed |-> 0, errors |-> <<>>, created_at |-> t,
                      updated_at |-> t])

complete_operation(ops, op_id, status, t) ==
    IF op_id \in OpIds(ops)
    THEN [ops EXCEPT ![OpIndex(ops, op_id)] =
            [@ EXCEPT !.status = status, !.updated_at = t]]
    ELSE ops

get_operation(ops, op_id) ==
    IF op_id \in OpIds(ops) THEN Some(ops[OpIndex(ops, op_id)]) ELSE None

\* A slip: an Operation that is already cancelled is refused.
cancel_operation_once(ops, op_id, t) ==
    IF op_id \in OpIds(ops) /\ ops[OpIndex(ops, op_id)].status # "cancelled"
    THEN [operations |-> [ops EXCEPT ![OpIndex(ops, op_id)] =
                            [@ EXCEPT !.status = "cancelled", !.updated_at = t]],
          return |-> TRUE]
    ELSE [operations |-> ops, return |-> FALSE]

\* The dict after the call, and what the call returns.
cancel_operation(ops, op_id, t) ==
    IF op_id \in OpIds(ops)
    THEN [operations |-> [ops EXCEPT ![OpIndex(ops, op_id)] =
                            [@ EXCEPT !.status = "cancelled", !.updated_at = t]],
          return |-> TRUE]
    ELSE [operations |-> ops, return |-> FALSE]

(***************************************************************************)
(* Local file tree.  fs maps a local path to what os.path.exists/os.walk   *)
(* see there: kind "missing", "file" or "dir", and for a directory the set *)
(* of its files [rel, content, readable], rel being the path below the     *)
(* directory as the tuple of its components.                               *)
(***************************************************************************)
HiddenNames == {".env", ".git"}

startswith_dot(filename) == filename \in HiddenNames

\* fnmatch.fnmatch(filename, pattern) for the patterns the model passes.
fnmatch(filename, pattern) ==
    CASE pattern = "*.tmp" -> filename \in {"x.tmp"}
      [] pattern = "sub"   -> filename = "sub"
      [] OTHER             -> filename = pattern

should_exclude(filename, exclude_patterns) ==
    \E k \in 1..Len(exclude_patterns) : fnmatch(filename, exclude_patterns[k])

os_path_exists(fsys, local_path) == fsys[local_path].kind # "missing"

\* os.path.join(repo_path, relative_path) if repo_path else relative_path
target_path(repo_path, relative_path) ==
    IF repo_path # <<>> THEN repo_path \o relative_path ELSE relative_path

\* The files the os.walk loop of a handler reads, in walk order: a
\* directory whose name is excluded is not descended into, a file is
\* skipped when its name is excluded or hidden (unless include_hidden), and
\* a file that cannot be read is logged and skipped.
WalkFiles(fsys, local_path, exclude_patterns, include_hidden) ==
    IF fsys[local_path].kind # "dir" THEN <<>>
    ELSE SetToSeq({f \in fsys[local_path].files :
            /\ \A k \in 1..(Len(f.rel) - 1) :
                   ~should_exclude(f.rel[k], exclude_patterns)
            /\ ~should_exclude(f.rel[Len(f.rel)], exclude_patterns)
            /\ ~(~include_hidden /\ startswith_dot(f.rel[Len(f.rel)]))
            /\ f.readable})

\* files / all_files of the upload tools: one item per file read.
RECURSIVE ScanList(_, _, _, _, _, _)
ScanList(fsys, local_path, repo_path, exclude_patterns, include_hidden, k) ==
    LET w == WalkFiles(fsys, local_path, exclude_patterns, include_hidden)
    IN  IF k > Len(w) THEN <<>>
        ELSE <<[repo_path |-> target_path(repo_path, w[k].rel),
                content |-> w[k].content]>>
             \o ScanList(fsys, local_path, repo_path, exclude_patterns,
                         include_hidden, k + 1)

(***************************************************************************)
(* The provider's Git data API, as far as the handlers use it.             *)
(***************************************************************************)
\* sha of the blob POST /git/blobs creates: determined by the content.
BlobSha(content) == <<"blob", content>>

RECURSIVE Ancestors(_, _)
Ancestors(cs, c) ==
    {c} \cup UNION {Ancestors(cs, q) : q \in Range(cs[c].parents)}

\* PATCH /git/refs/heads/{branch} with body {"sha": new}: no "force" key is
\* sent, so the provider applies the update only when it is a fast-forward
\* of the ref and answers 422 otherwise.
RefUpdateAccepted(cs, old, new, force) ==
    force \/ old \in Ancestors(cs, new)

\* GET /git/trees/{sha}?recursive=1: one "tree" item per directory and one
\* "blob" item per file.
DirsOf(tree) ==
    UNION {{SubSeq(q, 1, n) : n \in 1..(Len(q) - 1)} : q \in DOMAIN tree}

\* A variant: without recursive=1 only the entries at the top are listed.
RecursiveTreeShallow(tree) ==
    [tree |-> SetToSeq({[path |-> q, mode |-> tree[q].mode, type |-> "blob",
                         sha |-> tree[q].sha] : q \in {p \in DOMAIN tree : Len(p) = 1}})]

RecursiveTree(tree) ==
    [tree |->
        SetToSeq({[path |-> d, mode |-> "040000", type |-> "tree",
                   sha |-> <<"tree", d>>] : d \in DirsOf(tree)})
        \o SetToSeq({[path |-> q, mode |-> tree[q].mode, type |-> "blob",
                      sha |-> tree[q].sha] : q \in DOMAIN tree})]

\* POST /git/trees {base_tree, tree}: the entries of base_tree, replaced or
\* extended by the items of the request (a later item of the same path
\* wins).
LastItem(items, q) ==
    items[CHOOSE k \in 1..Len(items) :
            items[k].path = q /\ \A j \in (k + 1)..Len(items) : items[j].path # q]

CreateTree(base, items) ==
    [q \in DOMAIN base \cup {items[k].path : k \in 1..Len(items)} |->
        IF \E k \in 1..Len(items) : items[k].path = q
        THEN [mode |-> LastItem(items, q).mode, sha |-> LastItem(items, q).sha]
        ELSE base[q]]

(***************************************************************************)
(* call_tool invocations.  pc names the Gateway request in flight.         *)
(***************************************************************************)
IdleInv ==
    [pc |-> "idle", name |-> "", arguments |-> <<>>, op_id |-> None,
     files |-> <<>>, i |-> 0, latest_commit_sha |-> -1, base_tree_sha |-> -1,
     remote_tree |-> <<>>, remote_files |-> {},
     files_to_add |-> <<>>, files_to_update |-> <<>>, files_to_delete |-> <<>>,
     tree_items |-> <<>>, new_tree_sha |-> -1, new_commit |-> -1,
     result |-> None, reqs |-> <<>>, resps |-> <<>>, call |-> 0,
     cancel_hit |-> FALSE, walked |-> FALSE]

\* What github_client.request raises, as str(e): GitHubError on a status
\* >= 400, and Exception("Network error: ...") on an httpx.RequestError (a
\* timeout of the httpx client is one of these).
GatewayErrors ==
    {"GitHub API Error 500: Server Error",
     "Network error: timed out"}

NotFastForward == "GitHub API Error 422: Update is not a fast forward"

\* commit["author"] = ... in upload_directory_to_github: commit is not bound.
NameErrorCommit == "name 'commit' is not defined"

\* The requests, as <<method and endpoint, json body or params>>.
GetRef == <<"GET git/ref/heads", <<>>>>
GetCommit(sha) == <<"GET git/commits", sha>>
GetTree(sha) == <<"GET git/trees", [sha |-> sha, recursive |-> "1"]>>
PostBlob(content) == <<"POST git/blobs", [content |-> content, encoding |-> "base64"]>>
PostTree(base_tree, tree) == <<"POST git/trees", [base_tree |-> base_tree, tree |-> tree]>>
PostCommit(tree, parents) == <<"POST git/commits", [tree |-> tree, parents |-> parents]>>
\* A slip: the ref update is forced.
PatchRefForce(sha) == <<"PATCH git/refs/heads", [sha |-> sha, force |-> TRUE]>>

PatchRef(sha) == <<"PATCH git/refs/heads", [sha |-> sha, force |-> FALSE]>>

IsUploadTool(name) ==
    name \in {"upload_directory_to_github", "upload_multiple_directories_to_github"}

IsSyncTool(name) == name = "sync_local_directory_with_github"

\* The handler returns: result r, no request in flight.
Finish(v, r) == [v EXCEPT !.pc = "done", !.result = Some(r)]

\* except Exception as e: of the pipeline's try block, v being the locals
\* when e is raised.
Raise(i, v, e) ==
    /\ operations' = update_operation(operations, v.op_id[1], None,
                                      Some("failed"), Some(e), now)
    /\ inv' = [inv EXCEPT ![i] = Finish(v, [type |-> "error", error |-> e])]

\* The request in flight is answered: "ok", or the error it raises.
Resp(v, r) == [v EXCEPT !.resps = Append(@, r)]

\* The next request is sent.
Send(v, pc, req) == [v EXCEPT !.pc = pc, !.reqs = Append(@, req)]

\* A slip: the first request that fails is sent once more.
RequestFailsRetry(i, e) ==
    IF \A k \in 1..Len(inv[i].resps) : inv[i].resps[k] = "ok"
    THEN /\ inv' = [inv EXCEPT ![i] =
                Send(Resp(inv[i], e), inv[i].pc, inv[i].reqs[Len(inv[i].reqs)])]
         /\ UNCHANGED operations
    ELSE Raise(i, Resp(inv[i], e), e)

\* await github_client.request(...) raises e.
RequestFails(i, e) == Raise(i, Resp(inv[i], e), e)

(***************************************************************************)
(* Handler entry: argument extraction, os.path.exists, the scan, dry_run,  *)
(* create_operation, and the first request (GET ref) is sent.              *)
(***************************************************************************)
\* all_files of upload_multiple_directories_to_github, or None when the
\* local_path of a mapping does not exist (the handler returns there).
RECURSIVE ScanMappings(_, _, _, _, _)
ScanMappings(fsys, directory_mappings, exclude_patterns, include_hidden, k) ==
    IF k > Len(directory_mappings) THEN Some(<<>>)
    ELSE LET m == directory_mappings[k]
             rest == ScanMappings(fsys, directory_mappings, exclude_patterns,
                                  include_hidden, k + 1)
         IN  IF ~os_path_exists(fsys, m.local_path) \/ rest = None THEN None
             ELSE Some(ScanList(fsys, m.local_path, m.repo_path,
                                exclude_patterns, include_hidden, 1) \o rest[1])

OperationType(name) ==
    CASE name = "upload_directory_to_github" -> "upload_directory"
      [] name = "upload_multiple_directories_to_github" -> "upload_multiple"
      [] name = "sync_local_directory_with_github" -> "sync_directory"

\* What the scan of the tool yields: Some(files), or None for the early
\* return "Local path does not exist".
Scanned(name, a) ==
    IF name = "upload_multiple_directories_to_github"
    THEN ScanMappings(fs, a.directory_mappings, a.exclude_patterns,
                      a.include_hidden, 1)
    ELSE IF ~os_path_exists(fs, a.local_path) THEN None
         ELSE Some(ScanList(fs, a.local_path, a.repo_path, a.exclude_patterns,
                            a.include_hidden, 1))

\* Whether the handler reaches an os.walk loop: the local_path (of the
\* first mapping, for upload_multiple_directories_to_github) exists.
Walked(fsys, name, a) ==
    IF name = "upload_multiple_directories_to_github"
    THEN /\ a.directory_mappings # <<>>
         /\ os_path_exists(fsys, a.directory_mappings[1].local_path)
    ELSE os_path_exists(fsys, a.local_path)

PipelineTools ==
    {"upload_directory_to_github", "upload_multiple_directories_to_github",
     "sync_local_directory_with_github"}

\* call_tool is entered: invocation i is the next one.
Begin(i) ==
    /\ i = calls + 1
    /\ calls < budget
    /\ calls' = calls + 1

\* A slip: the Operation is created before dry_run is tested.
StartPipelineLateDryRun(i, name, a, new_id) ==
    /\ Begin(i)
    /\ name \in PipelineTools
    /\ Cardinality({j \in Invs : inv[j].name \in PipelineTools}) < MaxInv
    /\ LET v == [IdleInv EXCEPT !.name = name, !.arguments = a,
                                !.call = calls + 1,
                                !.walked = Walked(fs, name, a)]
           scan == Scanned(name, a)
       IN  IF scan = None
           THEN /\ inv' = [inv EXCEPT ![i] =
                    Finish(v, [type |-> "error", error |-> "does not exist"])]
                /\ UNCHANGED operations
           ELSE /\ operations' = create_operation(operations, new_id,
                                                  OperationType(name), now)
                /\ inv' = [inv EXCEPT ![i] =
                    IF a.dry_run
                    THEN Finish([v EXCEPT !.files = scan[1]],
                           [type |-> "dry_run", total_files |-> Len(scan[1])])
                    ELSE Send([v EXCEPT !.files = scan[1],
                                        !.op_id = Some(new_id)],
                              "ref_get", GetRef)]
    /\ UNCHANGED <<now, head, commits, trees, blobs, fs, budget,
                   identities, active_identity_id>>

\* upload_directory_to_github, upload_multiple_directories_to_github and
\* sync_local_directory_with_github up to their first await.
StartPipeline(i, name, a, new_id) ==
    /\ Begin(i)
    /\ name \in PipelineTools
    /\ Cardinality({j \in Invs : inv[j].name \in PipelineTools}) < MaxInv
    /\ LET v == [IdleInv EXCEPT !.name = name, !.arguments = a,
                                !.call = calls + 1,
                                !.walked = Walked(fs, name, a)]
           scan == Scanned(name, a)
       IN  IF scan = None
           THEN /\ inv' = [inv EXCEPT ![i] =
                    Finish(v, [type |-> "error", error |-> "does not exist"])]
                /\ UNCHANGED operations
           ELSE IF a.dry_run
           THEN /\ inv' = [inv EXCEPT ![i] =
                    Finish([v EXCEPT !.files = scan[1]],
                           [type |-> "dry_run", total_files |-> Len(scan[1])])]
                /\ UNCHANGED operations
           ELSE /\ operations' = create_operation(operations, new_id,
                                                  OperationType(name), now)
                /\ inv' = [inv EXCEPT ![i] =
                    Send([v EXCEPT !.files = scan[1], !.op_id = Some(new_id)],
                         "ref_get", GetRef)]
    /\ UNCHANGED <<now, head, commits, trees, blobs, fs, budget,
                   identities, active_identity_id>>

\* sync_multiple_directories_with_github: the whole handler (it awaits
\* nothing).  sync_args is built for each mapping and never used.
RECURSIVE SyncResults(_, _)
SyncResults(sync_mappings, k) ==
    IF k > Len(sync_mappings) THEN <<>>
    ELSE <<[local_path |-> sync_mappings[k].local_path,
            repo_path |-> sync_mappings[k].repo_path,
            success |-> TRUE]>> \o SyncResults(sync_mappings, k + 1)

SyncMultiple(i, a) ==
    /\ Begin(i)
    /\ LET v == [IdleInv EXCEPT !.name = "sync_multiple_directories_with_github",
                                !.arguments = a, !.call = calls + 1]
       IN  inv' = [inv EXCEPT ![i] =
              IF a.dry_run
              THEN Finish(v, [type |-> "dry_run",
                              total_mappings |-> Len(a.sync_mappings)])
              ELSE Finish(v, [type |-> "completed",
                              results |-> SyncResults(a.sync_mappings, 1)])]
    /\ UNCHANGED <<operations, now, head, commits, trees, blobs, fs, budget,
                   identities, active_identity_id>>

(***************************************************************************)
(* The pipeline, one action per response.                                  *)
(***************************************************************************)
\* update_operation(..., status="creating_tree") and POST git/trees.
EnterTree(i, v) ==
    /\ operations' = update_operation(operations, v.op_id[1],
            Some(IF IsSyncTool(v.name) THEN 50 ELSE Len(v.files)),
            Some("creating_tree"), None, now)
    /\ inv' = [inv EXCEPT ![i] =
            Send(v, "tree_post", PostTree(v.base_tree_sha, v.tree_items))]

\* A slip: no blob is created for the files to update.
BlobFilesAddOnly(v) ==
    IF IsSyncTool(v.name) THEN v.files_to_add ELSE v.files

\* The files a blob is created for, in the order of the requests.
BlobFiles(v) ==
    IF IsSyncTool(v.name) THEN v.files_to_add \o v.files_to_update ELSE v.files

\* remote_files: the paths of the blob items of the tree, in tree order.
RemoteFiles(remote_tree) ==
    LET b == SelectSeq(remote_tree.tree, LAMBDA item : item.type = "blob")
    IN  [k \in 1..Len(b) |-> b[k].path]

FilesToAdd(local_files, remote_files) ==
    SelectSeq(local_files, LAMBDA f : f.repo_path \notin Range(remote_files))

FilesToUpdate(local_files, remote_files) ==
    SelectSeq(local_files, LAMBDA f : f.repo_path \in Range(remote_files))

\* A slip: only the paths at the top of the repository are considered.
FilesToDeleteTopLevel(local_files, remote_files, delete_remote_files) ==
    IF delete_remote_files
    THEN SelectSeq(remote_files, LAMBDA q :
            /\ Len(q) = 1
            /\ q \notin {local_files[k].repo_path : k \in 1..Len(local_files)})
    ELSE <<>>

FilesToDelete(local_files, remote_files, delete_remote_files) ==
    IF delete_remote_files
    THEN SelectSeq(remote_files, LAMBDA q :
            q \notin {local_files[k].repo_path : k \in 1..Len(local_files)})
    ELSE <<>>

\* A slip: files_to_update is not consulted.
KeptItemsAll(v) ==
    LET rf == RemoteFiles(v.remote_tree)
        kept == SelectSeq(rf, LAMBDA q :
                    /\ q \notin {v.files_to_add[k].repo_path :
                                    k \in 1..Len(v.files_to_add)}
                    /\ q \notin Range(v.files_to_delete))
        item(q) == v.remote_tree.tree[CHOOSE k \in 1..Len(v.remote_tree.tree) :
                      v.remote_tree.tree[k].path = q]
    IN  [k \in 1..Len(kept) |->
            [path |-> kept[k], mode |-> "100644", type |-> "blob",
             sha |-> item(kept[k]).sha]]

\* "Add existing unchanged files from remote": the tree items of the remote
\* paths that are in none of the three lists.
KeptItems(v) ==
    LET rf == RemoteFiles(v.remote_tree)
        kept == SelectSeq(rf, LAMBDA q :
                    /\ q \notin {v.files_to_add[k].repo_path :
                                    k \in 1..Len(v.files_to_add)}
                    /\ q \notin {v.files_to_update[k].repo_path :
                                    k \in 1..Len(v.files_to_update)}
                    /\ q \notin Range(v.files_to_delete))
        item(q) == v.remote_tree.tree[CHOOSE k \in 1..Len(v.remote_tree.tree) :
                      /\ v.remote_tree.tree[k].path = q
                      /\ \A j \in 1..(k - 1) : v.remote_tree.tree[j].path # q]
    IN  [k \in 1..Len(kept) |->
            [path |-> kept[k], mode |-> "100644", type |-> "blob",
             sha |-> item(kept[k]).sha]]

\* A variant: the status flag is tested between two requests.
StopsWhenCancelledYes == TRUE

\* Between two requests the handlers test nothing: in particular they never
\* read the status of their Operation, so a cancelled one goes on.
StopsWhenCancelled == FALSE

Cancelled(ops, op_id) ==
    get_operation(ops, op_id) # None /\ get_operation(ops, op_id)[1].status = "cancelled"

\* A slip: the tree is requested at once, its items carrying the shas the
\* blobs will have, and no blob is awaited.
NextBlobOrTreeEager(i, v, k) ==
    EnterTree(i, [v EXCEPT !.tree_items =
        [n \in 1..Len(BlobFiles(v)) |->
            [path |-> BlobFiles(v)[n].repo_path, mode |-> "100644",
             type |-> "blob", sha |-> BlobSha(BlobFiles(v)[n].content)]]])

\* The blob loops from file k on (k = 1 is the first file), then the tree.
NextBlobOrTree(i, v, k) ==
    IF StopsWhenCancelled /\ Cancelled(operations, v.op_id[1])
    THEN /\ inv' = [inv EXCEPT ![i] = Finish(v, [type |-> "cancelled"])]
         /\ UNCHANGED operations
    ELSE IF k <= Len(BlobFiles(v))
    THEN /\ operations' =
              IF IsUploadTool(v.name)
              THEN update_operation(operations, v.op_id[1], Some(k - 1),
                                    Some("uploading"), None, now)
              ELSE operations
         /\ inv' = [inv EXCEPT ![i] =
              Send([v EXCEPT !.i = k], "blob_post",
                   PostBlob(BlobFiles(v)[k].content))]
    ELSE EnterTree(i, IF IsSyncTool(v.name)
                      THEN [v EXCEPT !.tree_items = @ \o KeptItems(v)]
                      ELSE v)

InFlight(i, pc) == inv[i].pc = pc

\* GET /repos/{owner}/{repo}/git/ref/heads/{branch}
RefGet(i) ==
    /\ InFlight(i, "ref_get")
    /\ \/ \E e \in GatewayErrors : RequestFails(i, e)
       \/ /\ inv' = [inv EXCEPT ![i] =
                Send([Resp(inv[i], "ok") EXCEPT !.latest_commit_sha = head],
                     "commit_get", GetCommit(head))]
          /\ UNCHANGED operations
    /\ UNCHANGED <<now, head, commits, trees, blobs, fs, calls, budget,
                   identities, active_identity_id>>

\* GET /repos/{owner}/{repo}/git/commits/{latest_commit_sha}
CommitGet(i) ==
    /\ InFlight(i, "commit_get")
    /\ \/ \E e \in GatewayErrors : RequestFails(i, e)
       \/ LET v == [Resp(inv[i], "ok") EXCEPT
                      !.base_tree_sha = commits[inv[i].latest_commit_sha].tree]
          IN  IF IsSyncTool(v.name)
              THEN /\ inv' = [inv EXCEPT ![i] =
                         Send(v, "tree_get", GetTree(v.latest_commit_sha))]
                   /\ UNCHANGED operations
              ELSE NextBlobOrTree(i, v, 1)
    /\ UNCHANGED <<now, head, commits, trees, blobs, fs, calls, budget,
                   identities, active_identity_id>>

\* GET /repos/{owner}/{repo}/git/trees/{latest_commit_sha}?recursive=1, and
\* the classification of the paths.
TreeGet(i) ==
    /\ InFlight(i, "tree_get")
    /\ \/ \E e \in GatewayErrors : RequestFails(i, e)
       \/ LET remote_tree ==
                RecursiveTree(trees[commits[inv[i].latest_commit_sha].tree])
              remote_files == RemoteFiles(remote_tree)
              v == [Resp(inv[i], "ok") EXCEPT
                      !.remote_tree = remote_tree,
                      !.remote_files = Range(remote_files),
                      !.files_to_add = FilesToAdd(inv[i].files, remote_files),
                      !.files_to_update = FilesToUpdate(inv[i].files, remote_files),
                      !.files_to_delete =
                          FilesToDelete(inv[i].files, remote_files,
                                        inv[i].arguments.delete_remote_files)]
          IN  NextBlobOrTree(i, v, 1)
    /\ UNCHANGED <<now, head, commits, trees, blobs, fs, calls, budget,
                   identities, active_identity_id>>

\* POST /repos/{owner}/{repo}/git/blobs for file i of the loop.
BlobPost(i) ==
    /\ InFlight(i, "blob_post")
    /\ \/ /\ \E e \in GatewayErrors : RequestFails(i, e)
          /\ UNCHANGED blobs
       \/ LET f == BlobFiles(inv[i])[inv[i].i]
              blob_data == [sha |-> BlobSha(f.content)]
              v == [Resp(inv[i], "ok") EXCEPT !.tree_items = Append(@,
                      [path |-> f.repo_path, mode |-> "100644",
                       type |-> "blob", sha |-> blob_data.sha])]
          IN  /\ blobs' = blobs \cup {blob_data.sha}
              /\ NextBlobOrTree(i, v, inv[i].i + 1)
    /\ UNCHANGED <<now, head, commits, trees, fs, calls, budget,
                   identities, active_identity_id>>

\* POST /repos/{owner}/{repo}/git/trees, then the commit payload.
TreePost(i) ==
    /\ InFlight(i, "tree_post")
    /\ \/ /\ \E e \in GatewayErrors : RequestFails(i, e)
          /\ UNCHANGED trees
       \/ LET sha == inv[i].call
              v == [Resp(inv[i], "ok") EXCEPT !.new_tree_sha = sha]
          IN  /\ trees' = [t \in DOMAIN trees \cup {sha} |->
                    IF t = sha
                    THEN CreateTree(trees[v.base_tree_sha], v.tree_items)
                    ELSE trees[t]]
              /\ IF /\ v.name = "upload_directory_to_github"
                    /\ v.arguments.author_name /\ v.arguments.author_email
                 THEN Raise(i, v, NameErrorCommit)
                 ELSE /\ inv' = [inv EXCEPT ![i] =
                            Send(v, "commit_post",
                                 PostCommit(sha, <<v.latest_commit_sha>>))]
                      /\ UNCHANGED operations
    /\ UNCHANGED <<now, head, commits, blobs, fs, calls, budget,
                   identities, active_identity_id>>

\* POST /repos/{owner}/{repo}/git/commits
CommitPost(i) ==
    /\ InFlight(i, "commit_post")
    /\ \/ /\ \E e \in GatewayErrors : RequestFails(i, e)
          /\ UNCHANGED commits
       \/ LET sha == inv[i].call
          IN  /\ commits' = [c \in DOMAIN commits \cup {sha} |->
                    IF c = sha
                    THEN [tree |-> inv[i].new_tree_sha,
                          parents |-> <<inv[i].latest_commit_sha>>]
                    ELSE commits[c]]
              /\ inv' = [inv EXCEPT ![i] =
                    Send([Resp(inv[i], "ok") EXCEPT !.new_commit = sha],
                         "ref_patch", PatchRef(sha))]
              /\ UNCHANGED operations
    /\ UNCHANGED <<now, head, trees, blobs, fs, calls, budget,
                   identities, active_identity_id>>

\* A slip: the last index of the blob loop is reported as the count.
CompletedLastIndex(v) ==
    [type |-> "completed", operation_id |-> v.op_id[1],
     status |-> "completed", commit_sha |-> v.new_commit,
     files_uploaded |-> Len(v.files) - 1]

\* The result of a pipeline that ran to its end.
Completed(v) ==
    IF IsSyncTool(v.name)
    THEN [type |-> "completed", operation_id |-> v.op_id[1],
          status |-> "completed", commit_sha |-> v.new_commit,
          files_added |-> Len(v.files_to_add),
          files_updated |-> Len(v.files_to_update),
          files_deleted |-> IF v.arguments.delete_remote_files
                            THEN Len(v.files_to_delete) ELSE -1]
    ELSE [type |-> "completed", operation_id |-> v.op_id[1],
          status |-> "completed", commit_sha |-> v.new_commit,
          files_uploaded |-> Len(v.files)]

\* A slip after the PATCH: the lines that follow it raise inside the try.
AfterRefUpdateRaises(i, v) == Raise(i, v, "KeyError: 'sha'")

\* complete_operation(op_id) and the return of the result.
AfterRefUpdate(i, v) ==
    /\ operations' = complete_operation(operations, v.op_id[1], "completed", now)
    /\ inv' = [inv EXCEPT ![i] = Finish(v, Completed(v))]

\* PATCH /repos/{owner}/{repo}/git/refs/heads/{branch}, and what follows.
RefPatch(i) ==
    /\ InFlight(i, "ref_patch")
    /\ LET body == inv[i].reqs[Len(inv[i].reqs)][2]
       IN  \/ /\ \E e \in GatewayErrors : RequestFails(i, e)
              /\ UNCHANGED head
           \/ /\ ~RefUpdateAccepted(commits, head, body.sha, body.force)
              /\ RequestFails(i, NotFastForward)
              /\ UNCHANGED head
           \/ /\ RefUpdateAccepted(commits, head, body.sha, body.force)
              /\ head' = body.sha
              /\ AfterRefUpdate(i, Resp(inv[i], "ok"))
    /\ UNCHANGED <<now, commits, trees, blobs, fs, calls, budget,
                   identities, active_identity_id>>

\* cancel_batch_operation: the whole handler.  cancel_hit records that the
\* Operation of an invocation was cancelled while the invocation was
\* running.
cancel_batch_operation(i, a) ==
    /\ Begin(i)
    /\ operations' = cancel_operation(operations, a.operation_id, now).operations
    /\ LET v == [IdleInv EXCEPT !.name = "cancel_batch_operation",
                                !.arguments = a, !.call = calls + 1]
           r == IF cancel_operation(operations, a.operation_id, now).return
                THEN [type |-> "cancelled", operation_id |-> a.operation_id,
                      status |-> "cancelled"]
                ELSE [type |-> "error", error |-> "not found or already completed"]
       IN  inv' = [j \in DOMAIN inv |->
                     IF j = i THEN Finish(v, r)
                     ELSE IF inv[j].op_id = Some(a.operation_id)
                             /\ inv[j].pc \notin {"idle", "done"}
                     THEN [inv[j] EXCEPT !.cancel_hit = TRUE] ELSE inv[j]]
    /\ UNCHANGED <<now, head, commits, trees, blobs, fs, budget,
                   identities, active_identity_id>>

(***************************************************************************)
(* Initial state: an empty tracker, a branch with one commit, no call.     *)
(***************************************************************************)
File(rel, content) == [rel |-> rel, content |-> content, readable |-> TRUE]

LocalTree ==
    [p \in {"/w", "/v", "/gone"} |->
        CASE p = "/w" -> [kind |-> "dir",
                          files |-> {File(<<"a.txt">>, 1), File(<<"b.txt">>, 2)}]
          [] p = "/v" -> [kind |-> "dir", files |-> {File(<<"a.txt">>, 3)}]
          [] OTHER    -> [kind |-> "missing", files |-> {}]]

RemoteTree ==
    [q \in {<<"a.txt">>, <<"bin", "run.sh">>} |->
        IF q = <<"a.txt">> THEN [mode |-> "100644", sha |-> BlobSha(7)]
        ELSE [mode |-> "100755", sha |-> BlobSha(8)]]

InitWith(fsys, tree, n) ==
    /\ operations = <<>>
    /\ now = 0
    /\ head = 0
    /\ commits = [c \in {0} |-> [tree |-> 0, parents |-> <<>>]]
    /\ trees = [t \in {0} |-> tree]
    /\ blobs = {tree[q].sha : q \in DOMAIN tree}
    /\ fs = fsys
    /\ inv = [i \in Invs |-> IdleInv]
    /\ calls = 0
    /\ budget = n
    /\ identities = <<>>
    /\ active_identity_id = <<>>

Init == InitWith(LocalTree, RemoteTree, MaxCalls)

\* The calls of the clients: tool name and arguments.
UploadArgs(local_path, dry_run, author) ==
    [local_path |-> local_path, repo_path |-> <<>>, dry_run |-> dry_run,
     author_name |-> author, author_email |-> author,
     exclude_patterns |-> <<>>, include_hidden |-> FALSE]

UploadMultipleArgs(local_path, dry_run) ==
    [directory_mappings |->
        <<[local_path |-> "/v", repo_path |-> <<"docs">>],
          [local_path |-> local_path, repo_path |-> <<"lib">>]>>,
     dry_run |-> dry_run, exclude_patterns |-> <<>>, include_hidden |-> FALSE]

SyncArgs(local_path, repo_path, dry_run, delete_remote_files) ==
    [local_path |-> local_path, repo_path |-> repo_path, dry_run |-> dry_run,
     delete_remote_files |-> delete_remote_files,
     exclude_patterns |-> <<>>, include_hidden |-> FALSE]

UploadCalls ==
    {<<"upload_directory_to_github", UploadArgs("/w", d, FALSE)>> : d \in BOOLEAN}

UploadMultipleCalls ==
    {<<"upload_multiple_directories_to_github", UploadMultipleArgs("/v", d)>> :
        d \in BOOLEAN}

SyncCalls ==
    {<<"sync_local_directory_with_github", SyncArgs("/v", <<>>, d, FALSE)>> :
        d \in BOOLEAN}

SyncMultipleArgs ==
    {[sync_mappings |-> <<[local_path |-> "/w", repo_path |-> <<"docs">>,
                           delete_remote_files |-> FALSE]>>,
      dry_run |-> d] : d \in BOOLEAN}

CancelArgs == {[operation_id |-> id] : id \in Invs}

UploadDirectory(i) ==
    \E c \in UploadCalls : StartPipeline(i, c[1], c[2], i)

UploadMultiple(i) ==
    \E c \in UploadMultipleCalls : StartPipeline(i, c[1], c[2], i)

SyncDirectory(i) ==
    \E c \in SyncCalls : StartPipeline(i, c[1], c[2], i)

SyncDirectories(i) ==
    \E a \in SyncMultipleArgs : SyncMultiple(i, a)

CancelBatch(i) ==
    \E a \in CancelArgs : cancel_batch_operation(i, a)

\* Spec: the upload/sync tools and cancel_batch_operation, interleaved.
Next ==
    \E i \in Invs :
        \/ UploadDirectory(i)
        \/ UploadMultiple(i)
        \/ SyncDirectory(i)
        \/ SyncDirectories(i)
        \/ CancelBatch(i)
        \/ RefGet(i)
        \/ CommitGet(i)
        \/ TreeGet(i)
        \/ BlobPost(i)
        \/ TreePost(i)
        \/ CommitPost(i)
        \/ RefPatch(i)

Spec == Init /\ [][Next]_vars

\* SpecCancel: one-file syncs and cancels.
SyncOne(i) ==
    \E c \in {d \in SyncCalls : ~d[2].dry_run} : StartPipeline(i, c[1], c[2], i)

InitCancel == InitWith(LocalTree, RemoteTree, MaxCancelCalls)

NextCancel ==
    \E i \in Invs :
        \/ SyncOne(i)
        \/ CancelBatch(i)
        \/ RefGet(i)
        \/ CommitGet(i)
        \/ TreeGet(i)
        \/ BlobPost(i)
        \/ TreePost(i)
        \/ CommitPost(i)
        \/ RefPatch(i)

SpecCancel == InitCancel /\ [][NextCancel]_vars

\* SpecSolo: one invocation of an upload/sync tool, for every local
\* directory "/w" over LocalFiles, every remote tree over RemoteEntries and
\* every choice of the arguments.
LocalFiles ==
    {File(<<"a.txt">>, 1), File(<<"b.txt">>, 2), File(<<"sub", "c.txt">>, 3)}

RemoteEntries ==
    [q \in {<<"a.txt">>, <<"b.txt">>, <<"docs", "a.txt">>, <<"bin", "run.sh">>} |->
        CASE q = <<"bin", "run.sh">> -> [mode |-> "100755", sha |-> BlobSha(8)]
          [] q = <<"b.txt">>         -> [mode |-> "100644", sha |-> BlobSha(2)]
          [] OTHER                   -> [mode |-> "100644", sha |-> BlobSha(7)]]

InitSolo ==
    \E L \in SUBSET LocalFiles, R \in SUBSET (DOMAIN RemoteEntries) :
        InitWith([LocalTree EXCEPT !["/w"].files = L],
                 [q \in R |-> RemoteEntries[q]], 1)

\* The arguments of the calls of SpecSolo.
UploadSoloArgs == {UploadArgs("/w", FALSE, au) : au \in BOOLEAN}

UploadMultipleSoloArgs ==
    {UploadMultipleArgs(lp, FALSE) : lp \in {"/w", "/gone"}}

SyncSoloArgs ==
    {SyncArgs("/w", rp, FALSE, del) : rp \in {<<>>, <<"docs">>}, del \in BOOLEAN}

UploadSolo(i) ==
    \E a \in UploadSoloArgs :
        StartPipeline(i, "upload_directory_to_github", a, i)

UploadMultipleSolo(i) ==
    \E a \in UploadMultipleSoloArgs :
        StartPipeline(i, "upload_multiple_directories_to_github", a, i)

SyncSolo(i) ==
    \E a \in SyncSoloArgs :
        StartPipeline(i, "sync_local_directory_with_github", a, i)

NextSolo ==
    \E i \in Invs :
        \/ UploadSolo(i)
        \/ UploadMultipleSolo(i)
        \/ SyncSolo(i)
        \/ RefGet(i)
        \/ CommitGet(i)
        \/ TreeGet(i)
        \/ BlobPost(i)
        \/ TreePost(i)
        \/ CommitPost(i)
        \/ RefPatch(i)

SpecSolo == InitSolo /\ [][NextSolo]_vars

\* SpecUpload: one upload_directory_to_github of a directory that holds any
\* of: plain files, a file in a subdirectory, a hidden file, a file matching
\* the exclusion pattern, a file that cannot be read.
UploadFiles ==
    {File(<<"a.txt">>, 1), File(<<"b.txt">>, 2), File(<<"sub", "c.txt">>, 3),
     File(<<".env">>, 4), File(<<"x.tmp">>, 5),
     [rel |-> <<"locked.txt">>, content |-> 6, readable |-> FALSE]}

InitUpload ==
    \E L \in SUBSET UploadFiles :
        InitWith([LocalTree EXCEPT !["/w"].files = L], RemoteTree, 1)

UploadArgsTo(local_path, repo_path, exclude_patterns, include_hidden) ==
    [local_path |-> local_path, repo_path |-> repo_path, dry_run |-> FALSE,
     author_name |-> FALSE, author_email |-> FALSE,
     exclude_patterns |-> exclude_patterns, include_hidden |-> include_hidden]

\* The arguments of the call of SpecUpload.
UploadOneArgs ==
    {UploadArgsTo("/w", rp, ex, hid) :
        rp \in {<<>>, <<"docs">>}, ex \in {<<>>, <<"*.tmp">>}, hid \in BOOLEAN}

UploadOne(i) ==
    \E a \in UploadOneArgs :
        StartPipeline(i, "upload_directory_to_github", a, i)

NextUpload ==
    \E i \in Invs :
        \/ UploadOne(i)
        \/ RefGet(i)
        \/ CommitGet(i)
        \/ BlobPost(i)
        \/ TreePost(i)
        \/ CommitPost(i)
        \/ RefPatch(i)

SpecUpload == InitUpload /\ [][NextUpload]_vars

\* SpecRound: an upload_directory_to_github of "/w" to a repo_path, and
\* after it has succeeded a sync_local_directory_with_github of the same
\* directory to the same repo_path, without deletion.
InitRound ==
    \E L \in SUBSET LocalFiles, R \in SUBSET (DOMAIN RemoteEntries) :
        InitWith([LocalTree EXCEPT !["/w"].files = L],
                 [q \in R |-> RemoteEntries[q]], 2)

UploadFirstArgs ==
    {UploadArgsTo("/w", rp, <<>>, FALSE) : rp \in {<<>>, <<"docs">>}}

UploadFirst(i) ==
    /\ calls = 0
    /\ \E a \in UploadFirstArgs :
          StartPipeline(i, "upload_directory_to_github", a, i)

SyncAfter(i) ==
    /\ calls = 1
    /\ inv[1].pc = "done" /\ inv[1].result[1].type = "completed"
    /\ StartPipeline(i, "sync_local_directory_with_github",
          SyncArgs("/w", inv[1].arguments.repo_path, FALSE, FALSE), i)

NextRound ==
    \E i \in Invs :
        \/ UploadFirst(i)
        \/ SyncAfter(i)
        \/ RefGet(i)
        \/ CommitGet(i)
        \/ TreeGet(i)
        \/ BlobPost(i)
        \/ TreePost(i)
        \/ CommitPost(i)
        \/ RefPatch(i)

SpecRound == InitRound /\ [][NextRound]_vars

(***************************************************************************)
(* SpecTracker: the BatchOperationManager alone, under any sequence of its *)
(* calls and the passing of time.  inv[1] holds the last call: its name,   *)
(* its arguments and what it returned.                                     *)
(***************************************************************************)
\* A tracker that n creations have filled, the older half one second before
\* the newer.
Prefilled(n) ==
    [k \in 1..n |->
        NewOperation(k, "upload_directory", IF 2 * k <= n THEN 0 ELSE 1)]

InitTrackerWith(N, b) ==
    \E n \in N :
        /\ operations = Prefilled(n)
        /\ now = 1
        /\ head = 0
        /\ commits = [c \in {0} |-> [tree |-> 0, parents |-> <<>>]]
        /\ trees = [t \in {0} |-> RemoteTree]
        /\ blobs = {}
        /\ fs = LocalTree
        /\ inv = [i \in Invs |-> IdleInv]
        /\ calls = 0
        /\ budget = b
        /\ identities = <<>>
        /\ active_identity_id = <<>>

InitTracker == InitTrackerWith({0}, MaxTrackerCalls)

\* An id that no tracked Operation has.
\* str(uuid.uuid4())[:8]: eight hexadecimal digits drawn at random, with no
\* look at the ids in use.  The draws the model follows: an id not in use,
\* the id of the first item of the dict and the id of the last.
Uuid8(ops) ==
    {CHOOSE id \in 1..(2 * Len(ops) + 1) : id \notin OpIds(ops)}
    \cup (IF ops = <<>> THEN {} ELSE {ops[1].id, ops[Len(ops)].id})

\* The ids a caller passes: the first and the last tracked, and an unknown.
CallerIds(ops) == Uuid8(ops)

Called(name, arguments, return) ==
    /\ calls < budget
    /\ calls' = calls + 1
    /\ inv' = [inv EXCEPT ![1] =
          Finish([IdleInv EXCEPT !.name = name, !.arguments = arguments,
                                 !.call = calls + 1],
                 [type |-> "return", value |-> return])]
    /\ UNCHANGED <<now, head, commits, trees, blobs, fs, budget,
                   identities, active_identity_id>>

TrackerCreate ==
    \E op_id \in Uuid8(operations) :
        /\ operations' = create_operation(operations, op_id, "upload_directory", now)
        /\ Called("create_operation", [operation_type |-> "upload_directory"],
                  Some(op_id))

TrackerUpdate ==
    \E op_id \in CallerIds(operations),
       progress \in {None, Some(5)},
       status \in {None, Some("uploading")},
       error \in {None, Some("boom")} :
        /\ operations' = update_operation(operations, op_id, progress, status,
                                          error, now)
        /\ Called("update_operation",
                  [op_id |-> op_id, progress |-> progress, status |-> status,
                   error |-> error], None)

TrackerComplete ==
    \E op_id \in CallerIds(operations) :
        /\ operations' = complete_operation(operations, op_id, "completed", now)
        /\ Called("complete_operation", [op_id |-> op_id], None)

TrackerGet ==
    \E op_id \in CallerIds(operations) :
        /\ operations' = operations
        /\ Called("get_operation", [op_id |-> op_id],
                  get_operation(operations, op_id))

TrackerCancel ==
    \E op_id \in CallerIds(operations) :
        /\ operations' = cancel_operation(operations, op_id, now).operations
        /\ Called("cancel_operation", [op_id |-> op_id],
                  Some(cancel_operation(operations, op_id, now).return))

\* The instants the clock is read at: the first, the one operation_timeout
\* later, and the seconds that follow each.
Instants ==
    {t0 + d : t0 \in {1, 1 + operation_timeout}, d \in 0..MaxDrift}

\* time.time() moves on.
Tick ==
    \E t \in Instants :
        /\ t > now
        /\ now' = t
        /\ UNCHANGED <<operations, head, commits, trees, blobs, fs, inv, calls,
                       budget,
                   identities, active_identity_id>>

NextTracker ==
    \/ TrackerCreate
    \/ TrackerUpdate
    \/ TrackerComplete
    \/ TrackerGet
    \/ TrackerCancel
    \/ Tick

SpecTracker == InitTracker /\ [][NextTracker]_vars

\* SpecCap: the tracker at its cap: creations, cancellations and time.
InitCap == InitTrackerWith({max_operations - 1, max_operations}, MaxCapCalls)

CapCancel ==
    \E op_id \in {operations[1].id, operations[Len(operations)].id} :
        /\ operations' = cancel_operation(operations, op_id, now).operations
        /\ Called("cancel_operation", [op_id |-> op_id],
                  Some(cancel_operation(operations, op_id, now).return))

NextCap ==
    \/ TrackerCreate
    \/ CapCancel
    \/ Tick

SpecCap == InitCap /\ [][NextCap]_vars

(***************************************************************************)
(* Properties.                                                             *)
(***************************************************************************)
Last(q) == q[Len(q)]

Done(i) == inv[i].pc = "done"

IsPipeline(i) == inv[i].name \in PipelineTools

Failed(i) == Done(i) /\ inv[i].result[1].type = "error"

Succeeded(i) ==
    IsPipeline(i) /\ Done(i) /\ inv[i].result[1].type = "completed"

\* The requests of invocation i of the given method and endpoint.
Sent(i, what) == {k \in 1..Len(inv[i].reqs) : inv[i].reqs[k][1] = what}

\* C1: the branch ref moves only in the step in which the ref update
\* request of an upload/sync invocation is answered with success, and then
\* to the commit of that invocation; the step in which an invocation fails
\* (at any request, the ref update included) leaves the ref where it was,
\* and the commit of a failed invocation is never reachable from the branch.
C1_RefMovesOnlyOnRefUpdate ==
    /\ [][/\ head' # head =>
               \E i \in Invs : /\ inv[i].pc = "ref_patch"
                               /\ inv'[i].pc = "done"
                               /\ Last(inv'[i].resps) = "ok"
                               /\ head' = inv[i].new_commit
          /\ \A i \in Invs :
               (inv[i].pc # "done" /\ inv'[i].pc = "done"
                  /\ inv'[i].result[1].type = "error") => head' = head]_vars
    /\ [](\A i \in Invs :
            IsPipeline(i) /\ Failed(i) => inv[i].call \notin Ancestors(commits, head))

\* The ref update request of an invocation failed after its blobs, tree and
\* commit were created, and the branch is where it was.
C1_Witness ==
    \E i \in Invs :
        /\ IsPipeline(i) /\ Failed(i)
        /\ Sent(i, "PATCH git/refs/heads") # {}
        /\ inv[i].call \in DOMAIN commits
        /\ head = 0

\* The operation record of the Operation invocation i created, in ops.
OpOf(ops, i) == get_operation(ops, inv[i].op_id[1])

Body(i, k) == inv[i].reqs[k][2]

\* C2: in every tree request each item carries the sha of a blob the
\* provider has created, and every file of the invocation has a blob request
\* that was answered before the tree request was sent; every commit request
\* names a tree that exists and follows an answered tree request; every ref
\* update names a commit that exists, follows an answered commit request,
\* and all entries of the tree of that commit are created blobs.
C2_RequestsOrdered ==
    \A i \in Invs :
        /\ \A k \in Sent(i, "POST git/trees") :
            /\ \A n \in 1..Len(Body(i, k).tree) : Body(i, k).tree[n].sha \in blobs
            /\ \A n \in 1..Len(BlobFiles(inv[i])) :
                 \E j \in 1..(k - 1) :
                    /\ inv[i].reqs[j] = PostBlob(BlobFiles(inv[i])[n].content)
                    /\ inv[i].resps[j] = "ok"
        /\ \A k \in Sent(i, "POST git/commits") :
            /\ Body(i, k).tree \in DOMAIN trees
            /\ \E j \in 1..(k - 1) : /\ inv[i].reqs[j][1] = "POST git/trees"
                                     /\ inv[i].resps[j] = "ok"
        /\ \A k \in Sent(i, "PATCH git/refs/heads") :
            /\ Body(i, k).sha \in DOMAIN commits
            /\ \E j \in 1..(k - 1) : /\ inv[i].reqs[j][1] = "POST git/commits"
                                     /\ inv[i].resps[j] = "ok"
            /\ \A q \in DOMAIN trees[commits[Body(i, k).sha].tree] :
                 trees[commits[Body(i, k).sha].tree][q].sha \in blobs

\* An invocation that created two blobs has had its ref update answered.
C2_Witness ==
    \E i \in Invs :
        /\ Succeeded(i)
        /\ Cardinality(Sent(i, "POST git/blobs")) = 2
        /\ head = inv[i].new_commit

\* C3: a request that was answered with an error is the last request its
\* invocation has sent, and the invocation has returned an error.
C3_NoRequestAfterFailure ==
    \A i \in Invs :
        /\ Len(inv[i].resps) <= Len(inv[i].reqs)
        /\ \A k \in 1..Len(inv[i].resps) :
             inv[i].resps[k] # "ok" => k = Len(inv[i].reqs) /\ Failed(i)

\* The first of two blob requests failed: nothing was sent after it.
C3_Witness ==
    \E i \in Invs :
        /\ Failed(i)
        /\ Len(BlobFiles(inv[i])) = 2
        /\ Len(inv[i].reqs) = 3
        /\ inv[i].reqs[3][1] = "POST git/blobs"
        /\ inv[i].resps[3] \in GatewayErrors

\* C4: in the step in which a request of an invocation is answered with an
\* error, the invocation returns an error result carrying that error, and
\* its Operation, if tracked after the step, has status failed, the errors
\* it had followed by that one error, and failed increased by one.
C4_FailureIsRecorded ==
    [][\A i \in Invs :
         (Len(inv'[i].resps) = Len(inv[i].resps) + 1 /\ Last(inv'[i].resps) # "ok")
         => /\ inv'[i].pc = "done"
            /\ inv'[i].result = Some([type |-> "error",
                                      error |-> Last(inv'[i].resps)])
            /\ OpOf(operations', i) # None =>
                 /\ OpOf(operations, i) # None
                 /\ OpOf(operations', i)[1].status = "failed"
                 /\ OpOf(operations', i)[1].errors =
                        Append(OpOf(operations, i)[1].errors, Last(inv'[i].resps))
                 /\ OpOf(operations', i)[1].failed =
                        OpOf(operations, i)[1].failed + 1]_vars

\* A request failed with each kind of error, and the Operation shows it.
C4_Witness ==
    \E i \in Invs :
        /\ IsPipeline(i) /\ Failed(i)
        /\ Last(inv[i].resps) = "Network error: timed out"
        /\ OpOf(operations, i) # None
        /\ OpOf(operations, i)[1].status = "failed"
        /\ OpOf(operations, i)[1].failed = 1
        /\ OpOf(operations, i)[1].errors = <<"Network error: timed out">>

Terminal == {"completed", "failed", "cancelled"}

\* C5: once a tracked Operation has status completed, failed or cancelled,
\* no step changes its status while it is tracked.
C5_TerminalIsFinal ==
    [][\A k \in 1..Len(operations) :
         (operations[k].status \in Terminal
            /\ operations[k].id \in OpIds(operations'))
         => get_operation(operations', operations[k].id)[1].status
                = operations[k].status]_vars

\* The requests of a pipeline that meets no error, by method and endpoint.
ExpectedKinds(v) ==
    <<"GET git/ref/heads", "GET git/commits">>
    \o (IF IsSyncTool(v.name) THEN <<"GET git/trees">> ELSE <<>>)
    \o [k \in 1..Len(BlobFiles(v)) |-> "POST git/blobs"]
    \o <<"POST git/trees", "POST git/commits", "PATCH git/refs/heads">>

Kinds(reqs) == [k \in 1..Len(reqs) |-> reqs[k][1]]

\* C6: the requests an invocation sends and the result it returns are
\* determined by the answers to its requests, cancelled or not: while every
\* answer is "ok" the requests are those of the full pipeline, in order, and
\* the invocation returns only after the ref update, with status completed
\* and its commit; after an error it returns that error.  The step of a
\* cancel_batch_operation leaves every running invocation as it is.
C6_CancelChangesNothing ==
    /\ [](\A i \in Invs :
            (IsPipeline(i) /\ inv[i].op_id # None) =>
              IF \E k \in 1..Len(inv[i].resps) : inv[i].resps[k] # "ok"
              THEN /\ Done(i)
                   /\ inv[i].result = Some([type |-> "error",
                                            error |-> Last(inv[i].resps)])
                   /\ Len(inv[i].reqs) = Len(inv[i].resps)
              ELSE /\ Kinds(inv[i].reqs)
                        = SubSeq(ExpectedKinds(inv[i]), 1, Len(inv[i].reqs))
                   /\ Done(i) =>
                        /\ Kinds(inv[i].reqs) = ExpectedKinds(inv[i])
                        /\ inv[i].result[1].type = "completed"
                        /\ inv[i].result[1].status = "completed"
                        /\ inv[i].result[1].commit_sha = inv[i].new_commit)
    /\ [][\A i \in Invs :
            (calls' = calls + 1 /\ inv'[calls'].name = "cancel_batch_operation"
               /\ i # calls')
            => inv'[i] = [inv[i] EXCEPT !.cancel_hit = inv'[i].cancel_hit]]_vars

\* An invocation whose Operation was cancelled while it was running has sent
\* all its requests and returned status completed.
C6_Witness ==
    \E i \in Invs :
        /\ Succeeded(i)
        /\ inv[i].cancel_hit
        /\ Kinds(inv[i].reqs) = ExpectedKinds(inv[i])
        /\ head = inv[i].new_commit

\* The step of a call of the tool of that name: the invocation is calls'.
Calls(name) == calls' = calls + 1 /\ inv'[calls'].name = name

\* C7: a cancel_batch_operation on an id that is not tracked returns the
\* not-found error and leaves the tracker as it is; on a tracked id,
\* whatever its status (cancelled already included), it reports success and
\* leaves the tracker with the same ids, that Operation cancelled, and every
\* other Operation as it was.
C7_CancelBatchOperation ==
    [][Calls("cancel_batch_operation") =>
         LET id == inv'[calls'].arguments.operation_id
             r  == inv'[calls'].result[1]
         IN  IF id \notin OpIds(operations)
             THEN /\ r.type = "error"
                  /\ operations' = operations
             ELSE /\ r = [type |-> "cancelled", operation_id |-> id,
                          status |-> "cancelled"]
                  /\ OpIds(operations') = OpIds(operations)
                  /\ get_operation(operations', id)[1].status = "cancelled"
                  /\ \A k \in 1..Len(operations) :
                       operations[k].id # id => operations'[k] = operations[k]]_vars

\* An Operation was cancelled twice, with success both times, and a cancel
\* of an untracked id returned the error.
C7_Witness ==
    \E i, j, n \in Invs :
        /\ i < j
        /\ inv[i].name = "cancel_batch_operation" /\ Done(i)
        /\ inv[j].name = "cancel_batch_operation" /\ Done(j)
        /\ inv[i].arguments = inv[j].arguments
        /\ inv[i].result[1].type = "cancelled"
        /\ inv[j].result[1].type = "cancelled"
        /\ Cancelled(operations, inv[i].arguments.operation_id)
        /\ Len(operations) = 1

DryRunTools == PipelineTools \cup {"sync_multiple_directories_with_github"}

\* C8: the step of a call of an upload/sync tool with dry_run = true, the
\* local paths being there, returns the plan, creates no Operation (the
\* tracker is unchanged), sends no request and changes nothing at the
\* provider; the invocation sends no request later either.
C8_DryRunHasNoEffect ==
    /\ [][\A name \in DryRunTools :
            (Calls(name) /\ inv'[calls'].arguments.dry_run
               /\ inv'[calls'].result[1].type # "error")
            => /\ inv'[calls'].pc = "done"
               /\ inv'[calls'].result[1].type = "dry_run"
               /\ inv'[calls'].reqs = <<>>
               /\ inv'[calls'].op_id = None
               /\ UNCHANGED <<operations, head, commits, trees, blobs>>]_vars
    /\ [](\A i \in Invs :
            (inv[i].name \in DryRunTools /\ inv[i].arguments.dry_run)
            => Done(i) /\ inv[i].reqs = <<>> /\ inv[i].op_id = None)

\* Two dry runs, one of them of a pipeline tool, have returned their plans:
\* the tracker is empty and the branch is where it was.
C8_Witness ==
    \E i, j \in Invs :
        /\ i # j
        /\ inv[i].name \in PipelineTools /\ inv[i].arguments.dry_run
        /\ inv[i].result = Some([type |-> "dry_run", total_files |-> 2])
        /\ inv[j].name \in DryRunTools /\ inv[j].arguments.dry_run /\ Done(j)
        /\ operations = <<>>
        /\ head = 0

\* C9: whenever the branch moves, the commit it moves to has exactly one
\* parent, the commit the branch pointed to before the step; every commit
\* that was once the head stays an ancestor of the head.
C9_SoleParentIsPreviousHead ==
    [][head' # head =>
         /\ commits'[head'].parents = <<head>>
         /\ Ancestors(commits, head) \subseteq Ancestors(commits', head')]_vars

\* Two invocations read the same head; one published its commit, and the ref
\* update of the other was refused.
C9_Witness ==
    \E i, j \in Invs :
        /\ Succeeded(i) /\ head = inv[i].new_commit
        /\ IsPipeline(j) /\ Failed(j) /\ Last(inv[j].resps) = NotFastForward
        /\ inv[i].latest_commit_sha = inv[j].latest_commit_sha
        /\ commits[head].parents = <<inv[j].latest_commit_sha>>

Paths(items) == {items[k].path : k \in 1..Len(items)}

TargetPaths(files) == {files[k].repo_path : k \in 1..Len(files)}

\* C10: in a sync with delete_remote_files = false that has sent its tree
\* request, files_to_delete is empty; the paths of files_to_add, of
\* files_to_update and of the remote entries carried into the tree request
\* are pairwise disjoint, no path is twice in the request, and together they
\* are the local target paths and the remote blob paths.
C10_PlanPartitions ==
    \A i \in Invs : \A k \in Sent(i, "POST git/trees") :
        (IsSyncTool(inv[i].name) /\ ~inv[i].arguments.delete_remote_files) =>
          LET v == inv[i]
              to_add == TargetPaths(v.files_to_add)
              to_update == TargetPaths(v.files_to_update)
              n == Len(v.files_to_add) + Len(v.files_to_update)
              items == Body(i, k).tree
              to_keep == Paths(SubSeq(items, n + 1, Len(items)))
          IN  /\ v.files_to_delete = <<>>
              /\ to_add \cap to_update = {}
              /\ to_add \cap to_keep = {}
              /\ to_update \cap to_keep = {}
              /\ Cardinality(Paths(items)) = Len(items)
              /\ Paths(SubSeq(items, 1, n)) = to_add \cup to_update
              /\ to_add \cup to_update \cup to_keep
                    = TargetPaths(v.files) \cup v.remote_files

\* A sync that adds, updates and keeps, with delete_remote_files = false.
C10_Witness ==
    \E i \in Invs :
        /\ IsSyncTool(inv[i].name) /\ ~inv[i].arguments.delete_remote_files
        /\ Sent(i, "POST git/trees") # {}
        /\ inv[i].files_to_add # <<>>
        /\ inv[i].files_to_update # <<>>
        /\ Len(inv[i].tree_items)
              > Len(inv[i].files_to_add) + Len(inv[i].files_to_update)

\* The sync invocations that have sent their tree request, with the value of
\* delete_remote_files given.
SyncPlanned(i, del) ==
    /\ IsSyncTool(inv[i].name)
    /\ inv[i].arguments.delete_remote_files = del
    /\ Sent(i, "POST git/trees") # {}

\* The paths of the remote entries carried into tree request k of i.
KeptPaths(i, k) ==
    LET n == Len(inv[i].files_to_add) + Len(inv[i].files_to_update)
    IN  Paths(SubSeq(Body(i, k).tree, n + 1, Len(Body(i, k).tree)))

\* C11: in a sync with delete_remote_files = true, every remote blob path
\* that is not a local target path, under repo_path or not, is in
\* files_to_delete and in none of files_to_add, files_to_update and the kept
\* entries of the tree request; no local target path is in files_to_delete.
C11_DeletePlan ==
    \A i \in Invs : \A k \in Sent(i, "POST git/trees") :
        SyncPlanned(i, TRUE) =>
          LET v == inv[i]
              local == TargetPaths(v.files)
          IN  /\ \A q \in v.remote_files \ local :
                    /\ q \in Range(v.files_to_delete)
                    /\ q \notin TargetPaths(v.files_to_add)
                    /\ q \notin TargetPaths(v.files_to_update)
                    /\ q \notin KeptPaths(i, k)
              /\ Range(v.files_to_delete) \cap local = {}

\* A sync to docs/ with deletion plans the deletion of a path outside docs/
\* and of one inside, and updates a file.
C11_Witness ==
    \E i \in Invs :
        /\ SyncPlanned(i, TRUE)
        /\ inv[i].arguments.repo_path = <<"docs">>
        /\ <<"bin", "run.sh">> \in Range(inv[i].files_to_delete)
        /\ <<"a.txt">> \in Range(inv[i].files_to_delete)
        /\ inv[i].files_to_update # <<>>

\* The blob requests of invocation i, in the order they were sent.
BlobReqs(i) == SelectSeq(inv[i].reqs, LAMBDA r : r[1] = "POST git/blobs")

\* C12: in a sync that has sent its tree request, files_to_update holds
\* exactly the local target paths that are remote blob paths, whatever the
\* contents; the blob requests are, in order, one per file of files_to_add
\* and files_to_update with the content of that file, and no other; every
\* kept entry carries the blob identifier its path has in the remote tree.
C12_UpdateAndBlobs ==
    \A i \in Invs : \A k \in Sent(i, "POST git/trees") :
        IsSyncTool(inv[i].name) =>
          LET v == inv[i]
              planned == v.files_to_add \o v.files_to_update
              n == Len(planned)
              items == Body(i, k).tree
          IN  /\ TargetPaths(v.files_to_update)
                    = TargetPaths(v.files) \cap v.remote_files
              /\ BlobReqs(i) = [j \in 1..n |-> PostBlob(planned[j].content)]
              /\ Cardinality(TargetPaths(planned)) = n
              /\ \A j \in (n + 1)..Len(items) :
                    items[j].sha = trees[v.base_tree_sha][items[j].path].sha

\* A file whose content is already the remote blob is updated by a new blob
\* request, another file is added and a remote entry is kept.
C12_Witness ==
    \E i \in Invs :
        /\ SyncPlanned(i, FALSE)
        /\ \E j \in 1..Len(inv[i].files_to_update) :
              /\ inv[i].files_to_update[j].repo_path = <<"b.txt">>
              /\ trees[inv[i].base_tree_sha][<<"b.txt">>].sha
                    = BlobSha(inv[i].files_to_update[j].content)
        /\ inv[i].files_to_add # <<>>
        /\ KeptPaths(i, Len(inv[i].reqs)) # {}
        /\ Len(BlobReqs(i)) = 2

\* C13: in the tree request of a sync every kept remote entry carries the
\* path, the mode and the blob identifier it has in the remote tree read.
C13_KeptEntriesVerbatim ==
    \A i \in Invs : \A k \in Sent(i, "POST git/trees") :
        IsSyncTool(inv[i].name) =>
          LET v == inv[i]
              n == Len(v.files_to_add) + Len(v.files_to_update)
              items == Body(i, k).tree
          IN  \A j \in (n + 1)..Len(items) :
                /\ items[j].path \in DOMAIN trees[v.base_tree_sha]
                /\ items[j].sha = trees[v.base_tree_sha][items[j].path].sha
                /\ items[j].mode = trees[v.base_tree_sha][items[j].path].mode

\* C14: after a successful sync with delete_remote_files = true, while the
\* branch points to its commit, no path of files_to_delete (the paths
\* counted in files_deleted) is in the tree of that commit.
C14_DeletedPathsAreGone ==
    \A i \in Invs :
        (Succeeded(i) /\ IsSyncTool(inv[i].name)
           /\ inv[i].arguments.delete_remote_files /\ head = inv[i].new_commit)
        => /\ inv[i].result[1].files_deleted = Len(inv[i].files_to_delete)
           /\ \A q \in Range(inv[i].files_to_delete) :
                 q \notin DOMAIN trees[commits[head].tree]

\* The files of the directory that can be read and are neither excluded by
\* a pattern nor, unless include_hidden, hidden.
Eligible(fsys, a) ==
    {f \in fsys[a.local_path].files :
        /\ f.readable
        /\ \A k \in 1..Len(f.rel) : ~should_exclude(f.rel[k], a.exclude_patterns)
        /\ a.include_hidden \/ ~startswith_dot(f.rel[Len(f.rel)])}

\* C15: a successful upload_directory_to_github of n eligible files has sent
\* GET ref, GET commit, n blob requests, one tree request, one commit
\* request and one ref update, and nothing else; the tree request is on the
\* base tree of the head that was read and has one entry of mode 100644 per
\* eligible file, with its target path and the blob of its content; the
\* result reports files_uploaded = n and the branch points to the commit
\* the result names.
C15_UploadRequests ==
    \A i \in Invs :
        (inv[i].name = "upload_directory_to_github" /\ Succeeded(i)) =>
          LET v == inv[i]
              E == Eligible(fs, v.arguments)
              n == Cardinality(E)
              items == Body(i, n + 3).tree
          IN  /\ Kinds(v.reqs) =
                    <<"GET git/ref/heads", "GET git/commits">>
                    \o [k \in 1..n |-> "POST git/blobs"]
                    \o <<"POST git/trees", "POST git/commits",
                         "PATCH git/refs/heads">>
              /\ Body(i, n + 3).base_tree = commits[v.latest_commit_sha].tree
              /\ Len(items) = n
              /\ {<<items[k].path, items[k].mode, items[k].type, items[k].sha>> :
                     k \in 1..n}
                   = {<<target_path(v.arguments.repo_path, f.rel), "100644",
                        "blob", BlobSha(f.content)>> : f \in E}
              /\ v.result[1].files_uploaded = n
              /\ head = v.result[1].commit_sha
              /\ commits[head].tree = v.new_tree_sha
              /\ \A f \in E :
                    target_path(v.arguments.repo_path, f.rel)
                        \in DOMAIN trees[commits[head].tree]

\* Two of five files are uploaded to docs/: the hidden one, the excluded one
\* and the unreadable one are left out.
C15_Witness ==
    \E i \in Invs :
        /\ inv[i].name = "upload_directory_to_github" /\ Succeeded(i)
        /\ Cardinality(fs["/w"].files) = 5
        /\ inv[i].arguments.repo_path = <<"docs">>
        /\ inv[i].result[1].files_uploaded = 2
        /\ Cardinality(Sent(i, "POST git/blobs")) = 2
        /\ head = inv[i].new_commit

\* The sync invocations that have read the remote tree and classified the
\* paths.
Classified(i) ==
    /\ IsSyncTool(inv[i].name)
    /\ Len(inv[i].resps) >= 3
    /\ inv[i].resps[3] = "ok"

\* C16: a sync without deletion of a directory to the repo_path it was just
\* uploaded to finds nothing to add and nothing to delete, every local
\* target path being in files_to_update; when it succeeds, the tree of the
\* branch has the paths it had after the upload.
C16_RoundTrip ==
    \A i \in Invs :
        Classified(i) =>
          /\ inv[i].files_to_add = <<>>
          /\ inv[i].files_to_delete = <<>>
          /\ TargetPaths(inv[i].files_to_update) = TargetPaths(inv[i].files)
          /\ TargetPaths(inv[i].files) = TargetPaths(inv[1].files)
          /\ Succeeded(i) =>
                DOMAIN trees[commits[head].tree]
                    = DOMAIN trees[commits[inv[1].new_commit].tree]

\* Three files, one of them nested, were uploaded to docs/ next to two
\* remote entries, and the sync that followed has succeeded.
C16_Witness ==
    \E i \in Invs :
        /\ Classified(i) /\ Succeeded(i)
        /\ Succeeded(1) /\ inv[1].name = "upload_directory_to_github"
        /\ inv[i].arguments.repo_path = <<"docs">>
        /\ Len(inv[i].files_to_update) = 3
        /\ head = inv[i].new_commit
        /\ Cardinality(DOMAIN trees[commits[head].tree]) = 5

\* The step of a call of that method of the tracker.
TrackerCall(name) == calls' = calls + 1 /\ inv'[1].name = name

\* The id create_operation has just returned.
Returned == inv'[1].result[1].value[1]

WithinTTL(o, t) == t - o.created_at <= operation_timeout

\* C17: the tracker never holds more than max_operations Operations; a
\* create_operation that makes a 51st Operation (its id is not in use, 50
\* are tracked, all within the TTL) leaves exactly 50: the new one and all
\* the former ones but one, and no former one is older than that one.
C17_CapIsKept ==
    /\ [](Len(operations) <= max_operations)
    /\ [][(/\ TrackerCall("create_operation")
           /\ Len(operations) = max_operations
           /\ Returned \notin OpIds(operations)
           /\ \A k \in 1..Len(operations) : WithinTTL(operations[k], now))
          => /\ Len(operations') = max_operations
             /\ Returned \in OpIds(operations')
             /\ \E k \in 1..Len(operations) :
                   /\ OpIds(operations') = (OpIds(operations) \ {operations[k].id})
                                              \cup {Returned}
                   /\ \A j \in 1..Len(operations) :
                         operations[j].created_at >= operations[k].created_at
                   /\ \A j \in 1..Len(operations) :
                         j # k => get_operation(operations', operations[j].id)
                                     = Some(operations[j])]_vars

\* A 51st Operation has been created within the TTL: Operation 1, the
\* oldest, is gone, and 50 are tracked.
C17_Witness ==
    /\ inv[1].name = "create_operation"
    /\ Len(operations) = max_operations
    /\ 1 \notin OpIds(operations)
    /\ 2 \in OpIds(operations)
    /\ now <= operation_timeout
    /\ operations[Len(operations)].id = inv[1].result[1].value[1]

\* C18: after every create_operation no tracked Operation is older than
\* operation_timeout, whatever its status; an Operation that was within the
\* TTL and is no longer tracked was evicted because more than max_operations
\* were left after the TTL pass, and no Operation that is still tracked is
\* older than it.
C18_Retention ==
    [][TrackerCall("create_operation") =>
         /\ \A k \in 1..Len(operations') : WithinTTL(operations'[k], now)
         /\ \A k \in 1..Len(operations) :
              (WithinTTL(operations[k], now)
                 /\ operations[k].id \notin OpIds(operations'))
              => /\ 1 + Cardinality({j \in 1..Len(operations) :
                            /\ WithinTTL(operations[j], now)
                            /\ operations[j].id # Returned}) > max_operations
                 /\ \A j \in 1..Len(operations') :
                       operations'[j].created_at >= operations[k].created_at]_vars

\* A create_operation at the second after the TTL of the older half: that
\* half is gone, cancelled Operation or not, and the newer half, of age
\* operation_timeout exactly, is still tracked.
C18_Witness ==
    /\ inv[1].name = "create_operation"
    /\ now = 1 + operation_timeout
    /\ calls = 2
    /\ 1 \notin OpIds(operations)
    /\ max_operations \in OpIds(operations)
    /\ Len(operations) = max_operations \div 2 + 1
    /\ \E k \in 1..Len(operations) :
          now - operations[k].created_at = operation_timeout

\* C19: an update_operation on a tracked id appends the error given, and
\* that one only, to errors and adds one to failed; without an error both
\* stay; progress and status become the value given and stay when none is
\* given; the other fields but updated_at, the other Operations and the ids
\* tracked stay.  On an id that is not tracked it changes nothing.
C19_UpdateOperation ==
    [][TrackerCall("update_operation") =>
         LET a == inv'[1].arguments
         IN  IF a.op_id \notin OpIds(operations)
             THEN operations' = operations
             ELSE LET o == get_operation(operations, a.op_id)[1]
                      n == get_operation(operations', a.op_id)[1]
                  IN  /\ OpIds(operations') = OpIds(operations)
                      /\ n.errors = IF a.error = None THEN o.errors
                                    ELSE Append(o.errors, a.error[1])
                      /\ n.failed = IF a.error = None THEN o.failed
                                    ELSE o.failed + 1
                      /\ n.progress = IF a.progress = None THEN o.progress
                                      ELSE a.progress[1]
                      /\ n.status = IF a.status = None THEN o.status
                                    ELSE a.status[1]
                      /\ n = [o EXCEPT !.errors = n.errors, !.failed = n.failed,
                                       !.progress = n.progress,
                                       !.status = n.status,
                                       !.updated_at = n.updated_at]
                      /\ \A k \in 1..Len(operations) :
                            operations[k].id # a.op_id
                               => operations'[k] = operations[k]]_vars

\* After an update with an error and a status, an update with progress only
\* has left errors, failed and status as they were.
C19_Witness ==
    /\ inv[1].name = "update_operation"
    /\ inv[1].arguments.error = None
    /\ inv[1].arguments.status = None
    /\ inv[1].arguments.progress = Some(5)
    /\ get_operation(operations, inv[1].arguments.op_id) # None
    /\ LET o == get_operation(operations, inv[1].arguments.op_id)[1]
       IN  /\ o.errors = <<"boom">>
           /\ o.failed = 1
           /\ o.status = "uploading"
           /\ o.progress = 5

\* C20: create_operation never returns an id that is tracked, and leaves
\* the record of every Operation that stays tracked as it was.
C20_IdsAreUnique ==
    [][TrackerCall("create_operation") =>
         /\ Returned \notin OpIds(operations)
         /\ \A k \in 1..Len(operations) :
               operations[k].id \in OpIds(operations')
                  => get_operation(operations', operations[k].id)
                        = Some(operations[k])]_vars

\* C21: right after create_operation returns an id, the Operation of that id
\* is tracked, pending, with progress, total, completed and failed at 0, no
\* error, and the instant of the call as created_at: the cleanup of that
\* call has not evicted it.
C21_CreatedIsTracked ==
    [][TrackerCall("create_operation") =>
         /\ Returned \in OpIds(operations')
         /\ get_operation(operations', Returned)
              = Some(NewOperation(Returned, "upload_directory", now))
         /\ LET o == get_operation(operations', Returned)[1]
            IN  /\ o.status = "pending"
                /\ o.progress = 0 /\ o.total = 0
                /\ o.completed = 0 /\ o.failed = 0
                /\ o.errors = <<>>]_vars

\* A creation with max_operations tracked within the TTL, a second after
\* the newest of them: one was evicted, and the new one is tracked.
C21_Witness ==
    /\ inv[1].name = "create_operation"
    /\ now = 1 + MaxDrift
    /\ Len(operations) = max_operations
    /\ 1 \notin OpIds(operations)
    /\ LET o == operations[Len(operations)]
       IN  /\ o.id = inv[1].result[1].value[1]
           /\ o.created_at = now
           /\ o.status = "pending"

\* The arrows of the state machine of an Operation's status.
StatusArrows ==
    {<<"pending", "uploading">>, <<"uploading", "creating_tree">>,
     <<"creating_tree", "completed">>}
    \cup {<<s, "failed">> : s \in {"pending", "uploading", "creating_tree"}}

\* C22: with no cancellation, every change of the status of an Operation
\* follows an arrow pending -> uploading -> creating_tree -> completed, or
\* goes from a state that is not terminal to failed: creating_tree is
\* entered from uploading only, completed from creating_tree only.
C22_StatusFollowsTheChain ==
    [][\A id \in OpIds(operations) \cap OpIds(operations') :
         LET before == get_operation(operations, id)[1].status
             after == get_operation(operations', id)[1].status
         IN  before # after => <<before, after>> \in StatusArrows]_vars

\* C23: an upload_directory_to_github that supplies author_name and
\* author_email, and whose Gateway requests all succeed, creates the commit,
\* moves the branch ref to it and returns status completed with its sha.
C23_AuthorIsOptional ==
    \A i \in Invs :
        (/\ Done(i)
         /\ inv[i].name = "upload_directory_to_github"
         /\ inv[i].arguments.author_name /\ inv[i].arguments.author_email
         /\ inv[i].reqs # <<>>
         /\ \A k \in 1..Len(inv[i].resps) : inv[i].resps[k] = "ok")
        => /\ inv[i].result[1].type = "completed"
           /\ Sent(i, "POST git/commits") # {}
           /\ inv[i].result[1].commit_sha = head

\* C24: a sync_multiple_directories_with_github with dry_run = false has
\* sent, for every mapping it reports with success = true, Gateway requests
\* ending in an update of the branch ref before it returns.
C24_SyncMultipleSyncs ==
    \A i \in Invs :
        (/\ Done(i)
         /\ inv[i].name = "sync_multiple_directories_with_github"
         /\ ~inv[i].arguments.dry_run)
        => \A k \in 1..Len(inv[i].result[1].results) :
              inv[i].result[1].results[k].success
              => /\ Cardinality(Sent(i, "PATCH git/refs/heads")) >= k
                 /\ Last(inv[i].reqs)[1] = "PATCH git/refs/heads"

(***************************************************************************)
(* call_tool as a whole: the dispatch on the tool name, the extraction of  *)
(* the arguments, and the except clauses that close its try block.         *)
(***************************************************************************)
MaxEntryCalls == 1    \* call_tool invocations in one behaviour of SpecCallTool

\* The tools of the dispatch that the model follows; any other name falls
\* to the final else.
BatchTools ==
    PipelineTools \cup {"sync_multiple_directories_with_github",
                        "cancel_batch_operation", "delete_label"}

\* A slip: commit_message is read with arguments.get.
RequiredArgumentsNoMessage(name) ==
    CASE name = "upload_directory_to_github" -> <<"local_path", "owner", "repo">>
      [] name = "upload_multiple_directories_to_github" ->
            <<"directory_mappings", "owner", "repo">>
      [] name = "sync_local_directory_with_github" -> <<"local_path", "owner", "repo">>
      [] name = "sync_multiple_directories_with_github" ->
            <<"sync_mappings", "owner", "repo">>
      [] name = "cancel_batch_operation" -> <<"operation_id">>
      [] name = "delete_label" -> <<"owner", "repo", "name">>

\* The keys a handler reads with arguments[...], in the order it reads them.
RequiredArguments(name) ==
    CASE name = "upload_directory_to_github" ->
            <<"local_path", "owner", "repo", "commit_message">>
      [] name = "upload_multiple_directories_to_github" ->
            <<"directory_mappings", "owner", "repo", "commit_message">>
      [] name = "sync_local_directory_with_github" -> <<"local_path", "owner", "repo">>
      [] name = "sync_multiple_directories_with_github" ->
            <<"sync_mappings", "owner", "repo">>
      [] name = "cancel_batch_operation" -> <<"operation_id">>
      [] name = "delete_label" -> <<"owner", "repo", "name">>

\* The KeyError the extraction of the arguments raises: Some(str(e)) for the
\* first required key that arguments lacks, None when it lacks none.
MissingArgument(name, a) ==
    LET missing == SelectSeq(RequiredArguments(name), LAMBDA k : k \notin DOMAIN a)
    IN  IF missing = <<>> THEN None ELSE Some("'" \o missing[1] \o "'")

\* isinstance(e, GitHubError), e being given as str(e).
IsGitHubError(e) ==
    e \in {"GitHub API Error 500: Server Error", NotFastForward}

\* A slip: only the GitHubError clause closes the try block; any other
\* exception leaves call_tool.
OuterExceptGitHubOnly(v, e) ==
    IF IsGitHubError(e)
    THEN Finish(v, [type |-> "error", error |-> "GitHub API Error: " \o e])
    ELSE [v EXCEPT !.pc = "raised"]

\* except GitHubError as e: / except Exception as e: of call_tool.
OuterExcept(v, e) ==
    IF IsGitHubError(e)
    THEN Finish(v, [type |-> "error", error |-> "GitHub API Error: " \o e])
    ELSE Finish(v, [type |-> "error",
                    error |-> "Error executing tool " \o v.name \o ": " \o e])

DeleteLabelReq == <<"DELETE labels", <<>>>>

\* call_tool(name, arguments) up to its first await, or to its return.
call_tool(i, name, a, new_id) ==
    LET v == [IdleInv EXCEPT !.name = name, !.arguments = a, !.call = calls + 1]
        returns(w) ==
            /\ Begin(i)
            /\ inv' = [inv EXCEPT ![i] = w]
            /\ UNCHANGED <<operations, now, head, commits, trees, blobs, fs,
                           budget,
                   identities, active_identity_id>>
    IN  IF name \notin BatchTools
        THEN returns(Finish(v, [type |-> "error",
                                error |-> "Unknown tool: " \o name]))
        ELSE IF MissingArgument(name, a) # None
        THEN returns(OuterExcept(v, MissingArgument(name, a)[1]))
        ELSE IF name \in PipelineTools THEN StartPipeline(i, name, a, new_id)
        ELSE IF name = "sync_multiple_directories_with_github"
        THEN SyncMultiple(i, a)
        ELSE IF name = "cancel_batch_operation" THEN cancel_batch_operation(i, a)
        ELSE returns(Send(v, "label_delete", DeleteLabelReq))

\* delete_label: the DELETE is answered; an error goes to the except
\* clauses of call_tool.
LabelDelete(i) ==
    /\ InFlight(i, "label_delete")
    /\ \/ \E e \in GatewayErrors :
            inv' = [inv EXCEPT ![i] = OuterExcept(Resp(inv[i], e), e)]
       \/ inv' = [inv EXCEPT ![i] =
            Finish(Resp(inv[i], "ok"), [type |-> "text", text |-> "Label deleted"])]
    /\ UNCHANGED <<operations, now, head, commits, trees, blobs, fs, calls,
                   budget,
                   identities, active_identity_id>>

(***************************************************************************)
(* SpecCallTool: one call of call_tool, for every tool of the dispatch and *)
(* a name it does not know, with a local_path that is a directory, a       *)
(* regular file or missing, and with each required argument left out.     *)
(***************************************************************************)
\* LocalTree and a regular file "/f".
EntryTree ==
    [p \in {"/w", "/v", "/gone", "/f"} |->
        IF p = "/f" THEN [kind |-> "file", files |-> {}] ELSE LocalTree[p]]

\* arguments without that key.
Without(a, key) == [k \in (DOMAIN a) \ {key} |-> a[k]]

UploadEntryArgs(local_path) ==
    [local_path |-> local_path, owner |-> "o", repo |-> "r",
     commit_message |-> "m", repo_path |-> <<>>, dry_run |-> FALSE,
     author_name |-> FALSE, author_email |-> FALSE,
     exclude_patterns |-> <<>>, include_hidden |-> FALSE]

UploadMultipleEntryArgs(local_path) ==
    [directory_mappings |-> <<[local_path |-> local_path, repo_path |-> <<"lib">>]>>,
     owner |-> "o", repo |-> "r", commit_message |-> "m", dry_run |-> FALSE,
     exclude_patterns |-> <<>>, include_hidden |-> FALSE]

SyncEntryArgs(local_path) ==
    [local_path |-> local_path, owner |-> "o", repo |-> "r",
     repo_path |-> <<>>, dry_run |-> FALSE, delete_remote_files |-> FALSE,
     exclude_patterns |-> <<>>, include_hidden |-> FALSE]

SyncMultipleEntryArgs ==
    [sync_mappings |-> <<[local_path |-> "/w", repo_path |-> <<"docs">>,
                          delete_remote_files |-> FALSE]>>,
     owner |-> "o", repo |-> "r", dry_run |-> FALSE]

\* The complete calls: every required argument is supplied.
CompleteCalls ==
    {<<"upload_directory_to_github", UploadEntryArgs(p)>> : p \in {"/v", "/gone", "/f"}}
    \cup {<<"upload_multiple_directories_to_github", UploadMultipleEntryArgs(p)>> :
            p \in {"/v", "/gone", "/f"}}
    \cup {<<"sync_local_directory_with_github", SyncEntryArgs(p)>> :
            p \in {"/v", "/gone", "/f"}}
    \cup {<<"sync_multiple_directories_with_github", SyncMultipleEntryArgs>>,
          <<"cancel_batch_operation", [operation_id |-> 1]>>,
          <<"delete_label", [owner |-> "o", repo |-> "r", name |-> "bug"]>>}

\* The calls that leave one required argument out, over a directory that
\* exists.
IncompleteCalls ==
    {<<c[1], Without(c[2], key)>> :
        c \in {d \in CompleteCalls :
                 "local_path" \in DOMAIN d[2] => d[2].local_path = "/v"},
        key \in {"local_path", "directory_mappings", "sync_mappings", "owner",
                 "repo", "commit_message", "operation_id", "name"}}
    \ CompleteCalls

UnknownCalls == {<<"no_such_tool", [owner |-> "o"]>>}

InitCallTool == InitWith(EntryTree, RemoteTree, MaxEntryCalls)

CallTool(i) ==
    \E c \in CompleteCalls \cup IncompleteCalls \cup UnknownCalls :
        call_tool(i, c[1], c[2], i)

\* The Gateway answers the request in flight.
Answered ==
    \E i \in Invs :
        \/ RefGet(i)
        \/ CommitGet(i)
        \/ TreeGet(i)
        \/ BlobPost(i)
        \/ TreePost(i)
        \/ CommitPost(i)
        \/ RefPatch(i)
        \/ LabelDelete(i)

NextCallTool ==
    \/ \E i \in Invs : CallTool(i)
    \/ Answered

\* Every request ends: the httpx client of the Gateway has a timeout.
SpecCallTool == InitCallTool /\ [][NextCallTool]_vars /\ WF_vars(Answered)

UploadSyncTools == PipelineTools \cup {"sync_multiple_directories_with_github"}

\* The arguments an upload/sync tool cannot do without: owner and repo,
\* local_path (for the tools of several directories, the list of mappings
\* that carries it), and commit_message for the upload tools.
NeededArguments(name) ==
    {"owner", "repo"}
    \cup (CASE name = "upload_multiple_directories_to_github" -> {"directory_mappings"}
            [] name = "sync_multiple_directories_with_github" -> {"sync_mappings"}
            [] OTHER -> {"local_path"})
    \cup (IF IsUploadTool(name) THEN {"commit_message"} ELSE {})

LocalPathsOf(i) ==
    IF inv[i].name = "upload_multiple_directories_to_github"
    THEN {inv[i].arguments.directory_mappings[k].local_path :
            k \in 1..Len(inv[i].arguments.directory_mappings)}
    ELSE {inv[i].arguments.local_path}

\* C26: an upload_directory_to_github, upload_multiple_directories_to_github
\* or sync_local_directory_with_github whose local_path does not exist, or
\* exists and is not a directory, returns an error at once: it creates no
\* Operation and sends no Gateway request, so the branch ref stays.
C26_LocalPathMustBeADirectory ==
    \A i \in Invs :
        (/\ inv[i].name \in PipelineTools
         /\ MissingArgument(inv[i].name, inv[i].arguments) = None
         /\ \E p \in LocalPathsOf(i) : fs[p].kind # "dir")
        => /\ Done(i)
           /\ inv[i].result[1].type = "error"
           /\ inv[i].op_id = None
           /\ inv[i].reqs = <<>>
           /\ operations = <<>>
           /\ head = 0

\* C27: no exception leaves call_tool, and every call returns a result:
\* whatever the tool name and the arguments, and whatever the Gateway
\* answers, an invocation that has begun ends with a payload, an error
\* payload when an exception was raised in its handler.
C27_CallToolAlwaysReturns ==
    /\ [](\A i \in Invs :
            /\ inv[i].pc # "raised"
            /\ Done(i) => inv[i].result # None
            /\ (/\ Done(i)
                /\ \/ inv[i].name \notin BatchTools
                   \/ MissingArgument(inv[i].name, inv[i].arguments) # None
                   \/ \E k \in 1..Len(inv[i].resps) : inv[i].resps[k] # "ok")
               => inv[i].result[1].type = "error")
    /\ \A i \in Invs : (inv[i].pc # "idle") ~> Done(i)

\* A delete_label whose request timed out has returned the error as text.
C27_Witness ==
    \E i \in Invs :
        /\ Done(i)
        /\ inv[i].name = "delete_label"
        /\ inv[i].resps = <<"Network error: timed out">>
        /\ inv[i].result[1] =
             [type |-> "error",
              error |-> "Error executing tool delete_label: Network error: timed out"]

(***************************************************************************)
(* scan_local_directory and read_multiple_files: handlers that only read   *)
(* the local file tree.  A file of the tree carries its size in bytes.     *)
(***************************************************************************)
MaxFiles == 2      \* largest max_files a scan_local_directory is called with
MaxPaths == 2      \* longest list of paths a read_multiple_files is called with

Min(m, n) == IF m < n THEN m ELSE n

RECURSIVE SumSizes(_, _)
SumSizes(entries, k) ==
    IF k > Len(entries) THEN 0 ELSE entries[k].size + SumSizes(entries, k + 1)

\* The files the os.walk loop of scan_local_directory comes to, in walk
\* order (those of the root, then those of the directories below it): with
\* recursive false no directory below the root is entered; else a
\* directory whose name is excluded is not entered; a file is passed over
\* when its name is excluded, or hidden unless include_hidden.
ScanWalk(fsys, path, recursive, exclude_patterns, include_hidden) ==
    LET passes(f) ==
            /\ recursive \/ Len(f.rel) = 1
            /\ \A k \in 1..(Len(f.rel) - 1) :
                   ~should_exclude(f.rel[k], exclude_patterns)
            /\ ~should_exclude(f.rel[Len(f.rel)], exclude_patterns)
            /\ ~(~include_hidden /\ startswith_dot(f.rel[Len(f.rel)]))
    IN  SetToSeq({f \in fsys[path].files : passes(f) /\ Len(f.rel) = 1})
        \o SetToSeq({f \in fsys[path].files : passes(f) /\ Len(f.rel) > 1})

\* scan_local_directory: the result of the handler.  The loops stop as soon
\* as max_files entries are collected.
scan_local_directory(fsys, a) ==
    IF ~os_path_exists(fsys, a.path)
    THEN [type |-> "error", error |-> "does not exist"]
    ELSE IF fsys[a.path].kind # "dir"
    THEN [type |-> "error", error |-> "is not a directory"]
    ELSE LET walk == ScanWalk(fsys, a.path, a.recursive, a.exclude_patterns,
                              a.include_hidden)
             files == SubSeq(walk, 1, Min(Len(walk), a.max_files))
             shown == SubSeq(files, 1, Min(Len(files), a.max_files))
         IN  [type |-> "scan",
              total_files |-> Len(files),
              total_size |-> SumSizes(files, 1),
              files |-> [k \in 1..Len(shown) |->
                           [relative_path |-> shown[k].rel, size |-> shown[k].size]],
              truncated |-> Len(files) > a.max_files,
              max_files_reached |-> a.max_files]

\* What os.path.exists, os.path.isfile and os.path.getsize see at a path
\* <<directory, path below it>>: Some(file), or None.
FileAt(fsys, filepath) ==
    LET hits == {f \in fsys[filepath[1]].files : f.rel = filepath[2]}
    IN  IF hits = {} THEN None ELSE Some(CHOOSE f \in hits : TRUE)

IsDirectoryAt(fsys, filepath) ==
    /\ fsys[filepath[1]].kind = "dir"
    /\ \/ filepath[2] = <<>>
       \/ \E f \in fsys[filepath[1]].files :
             /\ Len(f.rel) > Len(filepath[2])
             /\ SubSeq(f.rel, 1, Len(filepath[2])) = filepath[2]

\* The loop of read_multiple_files from the k-th path on; st holds
\* results, total_size, success_count and error_count.
RECURSIVE ReadLoop(_, _, _, _, _, _)
ReadLoop(fsys, paths, max_total_size, continue_on_error, k, st) ==
    IF k > Len(paths) THEN st
    ELSE LET filepath == paths[k]
             file == FileAt(fsys, filepath)
             failed(error) ==
                 [st EXCEPT !.results = Append(@, [path |-> filepath,
                                                   success |-> FALSE,
                                                   error |-> error]),
                            !.error_count = @ + 1]
             go(s) == ReadLoop(fsys, paths, max_total_size, continue_on_error,
                               k + 1, s)
         IN  IF file = None /\ ~IsDirectoryAt(fsys, filepath)
             THEN go(failed("File not found"))
             ELSE IF file = None
             THEN go(failed("Not a file"))
             ELSE IF st.total_size + file[1].size > max_total_size
             THEN IF continue_on_error
                  THEN go(failed("Total size limit exceeded"))
                  ELSE failed("Total size limit exceeded")
             ELSE LET counted == [st EXCEPT !.total_size = @ + file[1].size]
                      raised == [counted EXCEPT
                                   !.results = Append(@, [path |-> filepath,
                                                          success |-> FALSE,
                                                          error |-> "Permission denied"]),
                                   !.error_count = @ + 1]
                      read == [counted EXCEPT
                                   !.results = Append(@, [path |-> filepath,
                                                          success |-> TRUE,
                                                          size |-> file[1].size,
                                                          content_base64 |-> file[1].content]),
                                   !.success_count = @ + 1]
                  IN  IF ~file[1].readable
                      THEN IF continue_on_error THEN go(raised) ELSE raised
                      ELSE go(read)

\* read_multiple_files: the result of the handler.
read_multiple_files(fsys, a) ==
    IF a.paths = <<>>
    THEN [type |-> "error", error |-> "No file paths provided"]
    ELSE LET st == ReadLoop(fsys, a.paths, a.max_total_size, a.continue_on_error,
                            1, [results |-> <<>>, total_size |-> 0,
                                success_count |-> 0, error_count |-> 0])
         IN  [type |-> "read", total_files |-> Len(a.paths),
              success_count |-> st.success_count,
              error_count |-> st.error_count,
              total_size |-> st.total_size,
              results |-> st.results]

\* call_tool for a tool that awaits no request: the whole handler.
Returns(i, name, a, r) ==
    /\ Begin(i)
    /\ inv' = [inv EXCEPT ![i] =
          Finish([IdleInv EXCEPT !.name = name, !.arguments = a,
                                 !.call = calls + 1], r)]
    /\ UNCHANGED <<operations, now, head, commits, trees, blobs, fs, budget,
                   identities, active_identity_id>>

(***************************************************************************)
(* SpecFiles: one call of scan_local_directory, of read_multiple_files or  *)
(* of a dry run of upload_directory_to_github, over a directory "/w" that  *)
(* holds any of: plain files, a file in a subdirectory, a hidden file, a   *)
(* file in a hidden directory, a file that cannot be read.                 *)
(***************************************************************************)
SizedFile(rel, content, size, readable) ==
    [rel |-> rel, content |-> content, readable |-> readable, size |-> size]

TreeFiles ==
    {SizedFile(<<"a.txt">>, 1, 1, TRUE), SizedFile(<<"b.txt">>, 2, 2, TRUE),
     SizedFile(<<"sub", "c.txt">>, 3, 3, TRUE),
     SizedFile(<<".env">>, 4, 1, TRUE),
     SizedFile(<<".git", "config">>, 5, 1, TRUE),
     SizedFile(<<"locked.txt">>, 6, 2, FALSE)}

InitFiles ==
    \E L \in SUBSET TreeFiles :
        InitWith([p \in DOMAIN EntryTree |->
                    IF p = "/w" THEN [kind |-> "dir", files |-> L]
                    ELSE EntryTree[p]],
                 RemoteTree, 1)

\* The arguments of the calls of scan_local_directory.
ScanArgs ==
    {[path |-> path, recursive |-> recursive,
      include_hidden |-> include_hidden,
      exclude_patterns |-> exclude_patterns, max_files |-> max_files] :
        path \in {"/w", "/f", "/gone"}, recursive \in BOOLEAN,
        include_hidden \in BOOLEAN, exclude_patterns \in {<<>>, <<"sub">>},
        max_files \in 0..MaxFiles}

ScanLocalDirectory(i) ==
    \E a \in ScanArgs :
        Returns(i, "scan_local_directory", a, scan_local_directory(fs, a))

\* The paths a caller asks for: files of "/w", "/w" itself, and paths that
\* lead nowhere.
AskedPaths ==
    {<<"/w", <<"a.txt">>>>, <<"/w", <<"b.txt">>>>, <<"/w", <<"locked.txt">>>>,
     <<"/w", <<>>>>, <<"/gone", <<>>>>}

PathLists == UNION {[1..n -> AskedPaths] : n \in 0..MaxPaths}

\* The arguments of the calls of read_multiple_files.
ReadArgs ==
    {[paths |-> paths, max_total_size |-> max_total_size,
      continue_on_error |-> continue_on_error] :
        paths \in PathLists, max_total_size \in {2, 4},
        continue_on_error \in BOOLEAN}

ReadMultipleFiles(i) ==
    \E a \in ReadArgs :
        Returns(i, "read_multiple_files", a, read_multiple_files(fs, a))

UploadDryRunArgs ==
    {[local_path |-> "/w", repo_path |-> <<>>, dry_run |-> TRUE,
      author_name |-> FALSE, author_email |-> FALSE,
      exclude_patterns |-> <<>>, include_hidden |-> include_hidden] :
        include_hidden \in BOOLEAN}

UploadDryRun(i) ==
    \E a \in UploadDryRunArgs :
        StartPipeline(i, "upload_directory_to_github", a, i)

NextFiles ==
    \E i \in Invs :
        \/ ScanLocalDirectory(i)
        \/ ReadMultipleFiles(i)
        \/ UploadDryRun(i)

SpecFiles == InitFiles /\ [][NextFiles]_vars

\* The number of files of the directory that the filters of the scan let
\* through.
EligibleCount(a) ==
    Len(ScanWalk(fs, a.path, a.recursive, a.exclude_patterns, a.include_hidden))

\* C28: a scan_local_directory with max_files = N of a directory that holds
\* more than N eligible files returns N entries and truncated = true; with
\* at most N eligible files it returns them all and truncated = false.
C28_TruncatedIsReported ==
    \A i \in Invs :
        (/\ Done(i)
         /\ inv[i].name = "scan_local_directory"
         /\ inv[i].result[1].type = "scan")
        => LET a == inv[i].arguments
               r == inv[i].result[1]
           IN  IF EligibleCount(a) > a.max_files
               THEN Len(r.files) = a.max_files /\ r.truncated
               ELSE Len(r.files) = EligibleCount(a) /\ ~r.truncated

\* The file lies in no directory below the root whose name starts with '.',
\* and its own name does not start with '.'.
NotHidden(rel) == \A k \in 1..Len(rel) : ~startswith_dot(rel[k])

\* The paths, below the directory scanned, of the files a scan has yielded.
Yielded(i) ==
    IF inv[i].name = "scan_local_directory"
    THEN {inv[i].result[1].files[k].relative_path :
            k \in 1..Len(inv[i].result[1].files)}
    ELSE {inv[i].files[k].repo_path : k \in 1..Len(inv[i].files)}

\* C29: with include_hidden = false, a scan (scan_local_directory, or the
\* scan of an upload/sync tool) yields no file whose name starts with '.'
\* and no file under a directory, below the root, whose name starts with
\* '.'; with include_hidden = true it yields them, unless a pattern excludes
\* them.
C29_HiddenIsSkipped ==
    \A i \in Invs :
        (/\ Done(i)
         /\ inv[i].name \in {"scan_local_directory", "upload_directory_to_github"}
         /\ inv[i].result[1].type \in {"scan", "dry_run"})
        => LET a == inv[i].arguments
               root == IF inv[i].name = "scan_local_directory" THEN a.path
                       ELSE a.local_path
               hidden == {f.rel : f \in {g \in fs[root].files : ~NotHidden(g.rel)}}
           IN  IF ~a.include_hidden
               THEN Yielded(i) \cap hidden = {}
               ELSE inv[i].name = "upload_directory_to_github"
                    => \A rel \in hidden :
                          (/\ \A k \in 1..Len(rel) :
                                 ~should_exclude(rel[k], a.exclude_patterns)
                           /\ \E f \in fs[root].files : f.rel = rel /\ f.readable)
                          => rel \in Yielded(i)

\* The results of a read_multiple_files with success = true.
Successes(results) == SelectSeq(results, LAMBDA x : x.success)

\* C30: the total_size a read_multiple_files reports is the sum of the
\* sizes of its results with success = true, and is at most max_total_size;
\* a file whose size would take the running total over max_total_size is
\* reported as an error, and is not read.
C30_SizeBudget ==
    \A i \in Invs :
        (/\ Done(i)
         /\ inv[i].name = "read_multiple_files"
         /\ inv[i].result[1].type = "read")
        => LET a == inv[i].arguments
               r == inv[i].result[1]
           IN  /\ r.total_size = SumSizes(Successes(r.results), 1)
               /\ r.total_size <= a.max_total_size
               /\ \A k \in 1..Len(r.results) :
                     LET file == FileAt(fs, r.results[k].path)
                         before == SumSizes(Successes(SubSeq(r.results, 1, k - 1)), 1)
                     IN  (file # None /\ before + file[1].size > a.max_total_size)
                         => ~r.results[k].success

\* C31: a read_multiple_files with continue_on_error = false stops at the
\* first path that fails, whatever the failure (file not found, not a file,
\* size budget exceeded, read error): no result follows the first failure;
\* with continue_on_error = true every path has exactly one result.
C31_AbortAtFirstFailure ==
    \A i \in Invs :
        (/\ Done(i)
         /\ inv[i].name = "read_multiple_files"
         /\ inv[i].result[1].type = "read")
        => LET a == inv[i].arguments
               r == inv[i].result[1]
           IN  IF a.continue_on_error
               THEN /\ Len(r.results) = Len(a.paths)
                    /\ \A k \in 1..Len(a.paths) : r.results[k].path = a.paths[k]
               ELSE \A k \in 1..Len(r.results) :
                       ~r.results[k].success => k = Len(r.results)

\* C37: in a sync with a repo_path that is not empty and delete_remote_files
\* = true, every path of files_to_delete lies under repo_path: no remote
\* file outside the synchronized repo_path is classified for deletion.
C37_DeleteStaysUnderRepoPath ==
    \A i \in Invs :
        (/\ SyncPlanned(i, TRUE)
         /\ inv[i].arguments.repo_path # <<>>)
        => LET rp == inv[i].arguments.repo_path
           IN  \A k \in 1..Len(inv[i].files_to_delete) :
                  LET q == inv[i].files_to_delete[k]
                  IN  /\ Len(q) > Len(rp)
                      /\ SubSeq(q, 1, Len(rp)) = rp

(***************************************************************************)
(* SpecMappings: one upload_multiple_directories_to_github of two          *)
(* mappings, for every choice of the second directory and of the two       *)
(* repo_paths, or one sync_local_directory_with_github.                    *)
(***************************************************************************)
UploadMappingsArgs ==
    {[directory_mappings |->
         <<[local_path |-> "/v", repo_path |-> rp1],
           [local_path |-> lp, repo_path |-> rp2]>>,
      dry_run |-> FALSE, exclude_patterns |-> <<>>, include_hidden |-> FALSE] :
        lp \in {"/v", "/w"}, rp1 \in {<<>>, <<"docs">>},
        rp2 \in {<<>>, <<"docs">>}}

UploadMappings(i) ==
    \E a \in UploadMappingsArgs :
        StartPipeline(i, "upload_multiple_directories_to_github", a, i)

SyncMappedArgs ==
    {[local_path |-> "/w", repo_path |-> rp, dry_run |-> FALSE,
      delete_remote_files |-> del,
      exclude_patterns |-> <<>>, include_hidden |-> FALSE] :
        rp \in {<<>>, <<"docs">>}, del \in BOOLEAN}

SyncMapped(i) ==
    \E a \in SyncMappedArgs :
        StartPipeline(i, "sync_local_directory_with_github", a, i)

NextMappings ==
    \E i \in Invs :
        \/ UploadMappings(i)
        \/ SyncMapped(i)
        \/ RefGet(i)
        \/ CommitGet(i)
        \/ TreeGet(i)
        \/ BlobPost(i)
        \/ TreePost(i)
        \/ CommitPost(i)
        \/ RefPatch(i)

InitMappings == InitWith(LocalTree, RemoteTree, 1)

SpecMappings == InitMappings /\ [][NextMappings]_vars

\* C36: the tree request of an upload/sync invocation holds at most one
\* entry for a repository path: the added, updated and kept entries of a
\* sync share no path, and two mappings of an upload of several directories
\* give no two entries of the same target path.
C36_OneEntryPerPath ==
    \A i \in Invs : \A k \in Sent(i, "POST git/trees") :
        LET tree == Body(i, k).tree
        IN  \A m, n \in 1..Len(tree) :
               m # n => tree[m].path # tree[n].path

C35_OnlyTheOwnRecord ==
    [][/\ \A name \in {"update_operation", "complete_operation", "cancel_operation"} :
            TrackerCall(name)
            => LET id == inv'[1].arguments.op_id
               IN  /\ Len(operations') = Len(operations)
                   /\ \A k \in 1..Len(operations) :
                         /\ operations'[k].id = operations[k].id
                         /\ operations[k].id # id => operations'[k] = operations[k]
                   /\ id \notin OpIds(operations) => operations' = operations
       /\ TrackerCall("get_operation") => operations' = operations
       /\ OpIds(operations) \ OpIds(operations') # {}
            => TrackerCall("create_operation")]_vars

\* A complete_operation of one of two tracked Operations: that one is
\* completed, the other is still pending.
C35_Witness ==
    /\ inv[1].name = "complete_operation"
    /\ Len(operations) = 2
    /\ \E k, j \in 1..2 :
          /\ operations[k].id = inv[1].arguments.op_id
          /\ operations[k].status = "completed"
          /\ j # k
          /\ operations[j].status = "pending"

(***************************************************************************)
(* SpecLong: two calls among the three upload/sync tools and               *)
(* cancel_batch_operation, interleaved, while the clock moves: a request   *)
(* may be answered after any delay that the clock of the model can show.   *)
(***************************************************************************)
InitLong == InitWith(LocalTree, RemoteTree, 2)

UploadLongArgs ==
    [local_path |-> "/v", repo_path |-> <<>>, dry_run |-> FALSE,
     author_name |-> FALSE, author_email |-> FALSE,
     exclude_patterns |-> <<>>, include_hidden |-> FALSE]

UploadLong(i) ==
    StartPipeline(i, "upload_directory_to_github", UploadLongArgs, i)

UploadMultipleLongArgs ==
    [directory_mappings |-> <<[local_path |-> "/v", repo_path |-> <<"docs">>]>>,
     dry_run |-> FALSE, exclude_patterns |-> <<>>, include_hidden |-> FALSE]

UploadMultipleLong(i) ==
    StartPipeline(i, "upload_multiple_directories_to_github",
                  UploadMultipleLongArgs, i)

SyncLongArgs ==
    [local_path |-> "/v", repo_path |-> <<>>, dry_run |-> FALSE,
     delete_remote_files |-> FALSE,
     exclude_patterns |-> <<>>, include_hidden |-> FALSE]

SyncLong(i) ==
    StartPipeline(i, "sync_local_directory_with_github", SyncLongArgs, i)

\* The Gateway answers the request of a pipeline.
PipelineAnswered ==
    \E i \in Invs :
        \/ RefGet(i)
        \/ CommitGet(i)
        \/ TreeGet(i)
        \/ BlobPost(i)
        \/ TreePost(i)
        \/ CommitPost(i)
        \/ RefPatch(i)

\* time.time() moves on by more than operation_timeout while requests are
\* in flight.
Overrun ==
    /\ now = 0
    /\ now' = now + operation_timeout + 1
    /\ UNCHANGED <<operations, head, commits, trees, blobs, fs, inv, calls,
                   budget,
                   identities, active_identity_id>>

NextLong ==
    \/ \E i \in Invs : UploadLong(i)
    \/ \E i \in Invs : UploadMultipleLong(i)
    \/ \E i \in Invs : SyncLong(i)
    \/ \E i \in Invs : CancelBatch(i)
    \/ PipelineAnswered
    \/ Overrun

\* Every request ends: the httpx client of the Gateway has a timeout.
SpecLong == InitLong /\ [][NextLong]_vars /\ WF_vars(PipelineAnswered)

\* Invocation i, of an upload/sync tool, returns in this step.
ReturnsNow(i) ==
    /\ inv[i].pc \notin {"idle", "done"}
    /\ inv'[i].pc = "done"
    /\ inv[i].name \in PipelineTools

\* C32: when an upload/sync invocation returns status completed with
\* operation_id X, the tracker holds at that moment an Operation X with
\* status completed, whatever create_operation and cancel_operation calls of
\* other invocations came in between.
C32_CompletedIsReadable ==
    [][\A i \in Invs :
         (ReturnsNow(i) /\ inv'[i].result[1].type = "completed")
         => /\ get_operation(operations', inv'[i].result[1].operation_id) # None
            /\ get_operation(operations', inv'[i].result[1].operation_id)[1].status
                 = "completed"]_vars

\* C33: every upload/sync invocation that has created an Operation returns,
\* and when it returns that Operation, if it is still tracked, is completed
\* or failed: not pending, uploading or creating_tree.
C33_ReturnsWithTerminalStatus ==
    /\ \A i \in Invs : (inv[i].op_id # None) ~> Done(i)
    /\ [][\A i \in Invs :
            (ReturnsNow(i) /\ inv[i].op_id # None)
            => \/ get_operation(operations', inv[i].op_id[1]) = None
               \/ get_operation(operations', inv[i].op_id[1])[1].status
                    \in {"completed", "failed"}]_vars

\* An invocation whose Operation was cancelled while it ran has returned
\* status completed, and the Operation is completed.
C33_Witness ==
    \E i \in Invs :
        /\ Done(i)
        /\ inv[i].cancel_hit
        /\ inv[i].result[1].type = "completed"
        /\ OpOf(operations, i) # None
        /\ OpOf(operations, i)[1].status = "completed"

(***************************************************************************)
(* AuthManager: the identities, a dict in insertion order, and the id of   *)
(* the active one.                                                         *)
(***************************************************************************)
IdentityIds(ids) == {ids[k].id : k \in 1..Len(ids)}

\* self.identities[id] = AuthIdentity(id, token, metadata)
add_identity(ids, id, token) ==
    IF id \in IdentityIds(ids)
    THEN [k \in 1..Len(ids) |->
            IF ids[k].id = id THEN [id |-> id, token |-> token] ELSE ids[k]]
    ELSE Append(ids, [id |-> id, token |-> token])

\* A slip: the id is made active whether it is known or not.
switch_identity_unchecked(ids, active, id) == Some(id)

\* The active_identity_id after switch_identity(id).
switch_identity(ids, active, id) ==
    IF id \in IdentityIds(ids) THEN Some(id) ELSE active

\* identities and active_identity_id after remove_identity(id).
remove_identity(ids, active, id) ==
    IF id \in IdentityIds(ids)
    THEN LET rest == SelectSeq(ids, LAMBDA x : x.id # id)
         IN  [identities |-> rest,
              active_identity_id |->
                  IF active = Some(id)
                  THEN IF rest # <<>> THEN Some(rest[1].id) ELSE None
                  ELSE active]
    ELSE [identities |-> ids, active_identity_id |-> active]

\* _load_from_file from the k-th identity of credentials.json on: each is
\* added, and the first is made active.
RECURSIVE LoadFromFile(_, _, _)
LoadFromFile(file, k, st) ==
    IF k > Len(file) THEN st
    ELSE LET ids == add_identity(st.identities, file[k].id, file[k].token)
             active == IF st.active_identity_id = None
                       THEN switch_identity(ids, st.active_identity_id, file[k].id)
                       ELSE st.active_identity_id
         IN  LoadFromFile(file, k + 1,
                          [identities |-> ids, active_identity_id |-> active])

\* SpecAuth: any sequence of add_identity, switch_identity and
\* remove_identity calls over three ids and two tokens, from an AuthManager
\* built with no credentials.json, or with one of one or two identities.
AuthIds == {"alice", "bob", "carol"}

Tokens == {"t1", "t2"}

CredentialFiles ==
    {<<>>, <<[id |-> "alice", token |-> "t1"]>>,
     <<[id |-> "bob", token |-> "t1"], [id |-> "alice", token |-> "t2"]>>}

InitAuth ==
    /\ operations = <<>>
    /\ now = 0
    /\ head = 0
    /\ commits = [c \in {0} |-> [tree |-> 0, parents |-> <<>>]]
    /\ trees = [t \in {0} |-> RemoteTree]
    /\ blobs = {}
    /\ fs = LocalTree
    /\ inv = [i \in Invs |-> IdleInv]
    /\ calls = 0
    /\ budget = 0
    /\ \E file \in CredentialFiles :
          LET st == LoadFromFile(file, 1, [identities |-> <<>>,
                                          active_identity_id |-> None])
          IN  /\ identities = st.identities
              /\ active_identity_id = st.active_identity_id

\* A method of the AuthManager is called: inv[1] holds the last call, and
\* the identity that was active when it was made.
AuthCalled(name, id) ==
    /\ inv' = [inv EXCEPT ![1] =
          Finish([IdleInv EXCEPT !.name = name, !.arguments = [id |-> id]],
                 [type |-> "return", active_before |-> active_identity_id])]
    /\ UNCHANGED <<operations, now, head, commits, trees, blobs, fs, calls,
                   budget>>

AddIdentity(id, token) ==
    /\ identities' = add_identity(identities, id, token)
    /\ UNCHANGED active_identity_id
    /\ AuthCalled("add_identity", id)

SwitchIdentity(id) ==
    /\ active_identity_id' = switch_identity(identities, active_identity_id, id)
    /\ UNCHANGED identities
    /\ AuthCalled("switch_identity", id)

RemoveIdentity(id) ==
    /\ identities' = remove_identity(identities, active_identity_id, id).identities
    /\ active_identity_id' =
          remove_identity(identities, active_identity_id, id).active_identity_id
    /\ AuthCalled("remove_identity", id)

NextAuth ==
    \/ \E id \in AuthIds, token \in Tokens : AddIdentity(id, token)
    \/ \E id \in AuthIds : SwitchIdentity(id)
    \/ \E id \in AuthIds : RemoveIdentity(id)

SpecAuth == InitAuth /\ [][NextAuth]_vars

\* C38: active_identity_id is None or the id of an identity in identities;
\* a switch_identity to an unknown id leaves it as it is; a remove_identity
\* of the active identity leaves an identity that remains active, when one
\* remains.
C38_ActiveIsKnown ==
    /\ [](active_identity_id = None
            \/ active_identity_id[1] \in IdentityIds(identities))
    /\ [][\A id \in AuthIds :
            /\ (SwitchIdentity(id) /\ id \notin IdentityIds(identities))
               => active_identity_id' = active_identity_id
            /\ (/\ RemoveIdentity(id)
                /\ active_identity_id = Some(id)
                /\ identities' # <<>>)
               => /\ active_identity_id' # None
                  /\ active_identity_id'[1] \in IdentityIds(identities')]_vars

\* remove_identity of the active identity, the first of three, has left the
\* second active.
C38_Witness ==
    /\ inv[1].name = "remove_identity"
    /\ inv[1].arguments.id = "bob"
    /\ inv[1].result[1].active_before = Some("bob")
    /\ Len(identities) = 2
    /\ identities[1].id = "alice"
    /\ identities[2].id = "carol"
    /\ active_identity_id = Some("alice")

====
